---- MODULE Spec2Model ----
(***************************************************************************)
(* A model of the execution engine of sghi-ml-pipeline:                   *)
(*   - usecases.run(select): selection of the registered ETL workflows    *)
(*     and their concurrent execution (runtime/usecases/__init__.py);     *)
(*   - RunWorkflow.execute: one run of one workflow, i.e. the lifecycle   *)
(*     signals, the scoped acquisition of the three stages and the        *)
(*     extract -> transform -> load pipe                                   *)
(*     (runtime/usecases/run_workflow.py).                                  *)
(*   - the `run` command of the command-line entry point and the exit     *)
(*     status of the process (runtime/__main__.py), specification CliSpec; *)
(*   - FanInDataSource and FanOutDataSink, the aggregates that run their   *)
(*     members in a concurrent executor (lib/common/data_sources.py,       *)
(*     lib/common/data_sinks.py), specifications FanInSpec and FanOutSpec; *)
(*   - the @not_disposed guards of the stage classes, specification        *)
(*     StageSpec;                                                          *)
(*   - WorkflowBuilder and the descriptor it builds                        *)
(*     (lib/common/workflow_builder.py, workflow_descriptors.py),          *)
(*     specification BuilderSpec.                                          *)
(* Every workflow object owns three stages.  A stage is a Disposable whose *)
(* __enter__ and __call__ are guarded by @not_disposed, as every stage     *)
(* implementation of the repository is (lib/common/__init__.py).           *)
(* sghi.app.dispatcher.send delivers a signal to its receivers and returns; *)
(* the executor of a batch keeps the failure of a task in the task's        *)
(* future.                                                                  *)
(***************************************************************************)
EXTENDS Integers, Sequences, FiniteSets, TLC

\* ------------------------------------------------------------------------
\* Bounds of the model
\* ------------------------------------------------------------------------

\* Number of workflow factories in the configuration.
NumWorkflows == 2

\* Number of workflow ids a caller may select that are not registered.
NumUnknownIds == 2

\* Longest `select` sequence that a caller passes to usecases.run.
MaxSelectLen == 2

\* Largest number of stages that are already disposed when the run begins.
MaxPreDisposed == 1

\* Number of member sources of a FanInDataSource.
NumSources == 3

\* Number of member sinks of a FanOutDataSink.
NumSinks == 2

\* Largest number of calls of FanInDataSource.draw.
MaxDraws == 2

\* Largest number of calls made on one stage instance.
MaxStageCalls == 2

\* Largest number of calls of FanOutDataSink.drain.
MaxDrains == 2

\* Largest number of sources and sinks, taken together, registered with a
\* WorkflowBuilder.
MaxRegistered == 3

\* ------------------------------------------------------------------------
\* Values
\* ------------------------------------------------------------------------

\* The workflow objects the configured factories produce.
Workflows == 1..NumWorkflows

\* The configured workflow factories, in configuration order; the k-th
\* factory produces the workflow object k.
Config == [k \in 1..NumWorkflows |-> k]

\* The ids of workflows whose factories give every workflow an id of its
\* own (ids are kept apart from objects).
DistinctIds == [o \in Workflows |-> <<"wf", o>>]

KnownIds == {DistinctIds[o] : o \in Workflows}

\* Ids that no configured workflow has.
UnknownIds == {<<"unknown", k>> : k \in 1..NumUnknownIds}

Ids == KnownIds \cup UnknownIds

\* The three stages of an ETLWorkflow, in the order RunWorkflow enters them.
Stages == <<"extractor", "transformer", "loader">>

StageSet == {Stages[i] : i \in 1..Len(Stages)}

Range(s) == {s[i] : i \in DOMAIN s}

\* Python's None.
None == [type |-> "None"]

\* The `select` argument before usecases.run has been called.
NoCall == [type |-> "NoCall"]

\* sghi.disposable.ResourceDisposedError raised by a @not_disposed guard.
ResourceDisposedError(o, s) ==
    [type |-> "ResourceDisposedError", wf |-> o, stage |-> s]

\* An exception raised by the body of a stage.
StageError(o, s) == [type |-> "StageError", wf |-> o, stage |-> s]

\* The value an extractor returns, and the value a transformer returns for
\* an input.  The engine never inspects the data, so data are terms.
Extracted(o) == [type |-> "extracted", wf |-> o]

Transformed(o, x) == [type |-> "transformed", wf |-> o, of |-> x]

\* Variant: the "starting" signal is built as a "completed" signal.
StartingETLWorkflow_AsCompleted(o) ==
    [kind |-> "completed", etl_workflow |-> o, exception |-> None]

\* signals.StartingETLWorkflow / CompletedETLWorkflow
StartingETLWorkflow(o) == [kind |-> "starting", etl_workflow |-> o,
                           exception |-> None]

CompletedETLWorkflow(o) == [kind |-> "completed", etl_workflow |-> o,
                            exception |-> None]

\* str(exp): the text of an exception.
Str(exp) == [type |-> "str", of |-> exp]

\* Variant: the signal is built without its `exception` argument.
ETLWorkflowFailed_NoException(o, exp) ==
    [kind |-> "failed", etl_workflow |-> o, err_message |-> Str(exp),
     exception |-> None]

\* signals.ETLWorkflowFailed(etl_workflow=..., err_message=str(exp),
\* exception=exp)
ETLWorkflowFailed(o, exp) ==
    [kind |-> "failed", etl_workflow |-> o, err_message |-> Str(exp),
     exception |-> exp]

\* All sequences over S of length <= n.
SeqsUpTo(S, n) == UNION {[1..k -> S] : k \in 0..n}

\* A `select` argument that is a sequence of workflow ids.
IdSequence(q) == [type |-> "Sequence", ids |-> q]

\* The `select` arguments callers pass: None or a sequence of ids.
SelectInputs == {None} \cup {IdSequence(q) : q \in SeqsUpTo(Ids, MaxSelectLen)}

\* ------------------------------------------------------------------------
\* State
\* ------------------------------------------------------------------------
VARIABLES
    select,       \* the argument of the call of usecases.run
    workflows,    \* sghi.app.registry[ETL_WORKFLOW_REG_KEY]: id -> workflow
    callerPc,     \* position of the caller of usecases.run
    runResult,    \* outcome of usecases.run
    tasks,        \* the workflows wrapped in RunWorkflow and submitted
    pc,           \* pc[o]: position of RunWorkflow(o).execute
    stack,        \* stack[o]: stages held by RunWorkflow._workflow_stack
    acquireLog,   \* acquireLog[o]: stages entered, in order
    isDisposed,   \* isDisposed[o][s]: Disposable.is_disposed of a stage
    disposeLog,   \* disposeLog[o]: dispose() calls made by the engine
    calls,        \* calls[o]: stage invocations <<stage, argument>>
    piped,        \* piped[o]: the value pipe() hands to the next stage
    loaded,       \* loaded[o]: values the loader consumed
    events,       \* events[o]: signals sent for workflow o, in order
    exc,          \* exc[o]: exception in flight in execute
    result,       \* result[o]: outcome of RunWorkflow(o).execute
    factoryOutcome, \* what calling the configured workflow factories does
    idOf,         \* idOf[o]: ETLWorkflow.id of the workflow object o
    cliPc,        \* position of the command-line entry point
    configOutcome, \* outcome of load_config_file / sghi.app.setup
    cliSelected,  \* the values of the --select options
    appSignals,   \* application signals sent by the entry point, in order
    exitStatus,   \* exit status of the process
    fiPc,         \* position of the caller of a FanInDataSource
    fiDisposed,   \* FanInDataSource._is_disposed
    fiStack,      \* what FanInDataSource._exit_stack holds, in order
    fiMemberDisposed, \* is_disposed of each member source
    fiExecDisposed,   \* is_disposed of FanInDataSource._executor
    fiFutures,    \* the future of each member draw of the current draw()
    fiCompletion, \* the members in the order their draws finished
    fiMemberDraws,    \* how often the body of each member draw has run
    fiExc,        \* exception in flight in draw()
    fiResult,     \* outcome of the latest call of draw()
    fiDrawn,      \* number of calls of draw() that have ended
    foPc,         \* position of the caller of a FanOutDataSink
    foDisposed,   \* FanOutDataSink._is_disposed
    foExecDisposed,   \* is_disposed of FanOutDataSink._executor
    foMemberDisposed, \* is_disposed of each member sink
    foDrains,     \* the values the executor accepted, one per drain()
    foFutures,    \* foFutures[d][m]: future of member m for foDrains[d]
    foCalls,      \* foCalls[m][v]: invocations of member sink m with v
    foResult,     \* outcome of the latest call of drain()
    foDrained,    \* number of calls of drain() that have ended
    implKind,     \* the class of the stage instance under consideration
    implDisposed, \* its _is_disposed
    implCalls,    \* number of calls made on it
    implDisposals,    \* number of calls of its dispose()
    implBodyRuns, \* how often a call reached what the stage wraps
    implLast,     \* the latest call: operation, state before, outcome
    bldPc,        \* the caller of a WorkflowBuilder: "ready" configures it,
                  \* "built" holds the descriptor of its latest build()
    bldSuppliers, \* WorkflowBuilder._data_suppliers
    bldProcessors,    \* WorkflowBuilder._data_processors
    bldConsumers, \* WorkflowBuilder._data_consumers
    bldFactoryCalls,  \* the factories build() called, with their arguments
    bldDescriptor,    \* the descriptor of the latest successful build()
    bldLast,      \* the latest operation: name, argument, outcome
    bldCalls,     \* values passed to the descriptor's data_consumer
    bldConsumed   \* values that sink instances consumed, in order

runVars == <<select, workflows, callerPc, runResult, tasks>>

engineVars == <<runVars, pc, stack, acquireLog, isDisposed, disposeLog,
                calls, piped, loaded, events, exc, result>>

cliVars == <<cliPc, configOutcome, cliSelected, appSignals, exitStatus>>

fanInVars == <<fiPc, fiDisposed, fiStack, fiMemberDisposed, fiExecDisposed,
               fiFutures, fiCompletion, fiMemberDraws, fiExc, fiResult,
               fiDrawn>>

fanOutVars == <<foPc, foDisposed, foExecDisposed, foMemberDisposed, foDrains,
                foFutures, foCalls, foResult, foDrained>>

implVars == <<implKind, implDisposed, implCalls, implDisposals,
              implBodyRuns, implLast>>

builderVars == <<bldPc, bldSuppliers, bldProcessors, bldConsumers,
                 bldFactoryCalls, bldDescriptor, bldLast, bldCalls,
                 bldConsumed>>

\* What usecases.run and RunWorkflow.execute leave alone.
otherVars == <<factoryOutcome, idOf, cliVars, fanInVars, fanOutVars, implVars,
               builderVars>>

\* What the command-line entry point leaves alone, except through
\* usecases.run.
nonCliVars == <<engineVars, factoryOutcome, idOf, fanInVars, fanOutVars, implVars,
                builderVars>>

\* What a FanInDataSource leaves alone.
nonFanInVars == <<engineVars, factoryOutcome, idOf, cliVars, fanOutVars, implVars,
                  builderVars>>

\* What a FanOutDataSink leaves alone.
nonFanOutVars == <<engineVars, factoryOutcome, idOf, cliVars, fanInVars, implVars,
                   builderVars>>

\* What a single stage instance leaves alone.
nonImplVars == <<engineVars, factoryOutcome, idOf, cliVars, fanInVars, fanOutVars,
                 builderVars>>

\* What a WorkflowBuilder leaves alone.
nonBuilderVars == <<engineVars, factoryOutcome, idOf, cliVars, fanInVars,
                    fanOutVars, implVars>>

vars == <<engineVars, otherVars>>

\* The stages that are disposed before the run, at most MaxPreDisposed.
PreDisposedSets ==
    {D \in SUBSET (Workflows \X StageSet) : Cardinality(D) <= MaxPreDisposed}

\* The execution engine before usecases.run is called.
EngineInit ==
    /\ select = NoCall
    /\ workflows = <<>>
    /\ callerPc = "idle"
    /\ runResult = None
    /\ tasks = {}
    /\ pc = [o \in Workflows |-> "new"]
    /\ stack = [o \in Workflows |-> <<>>]
    /\ acquireLog = [o \in Workflows |-> <<>>]
    /\ \E D \in PreDisposedSets :
          isDisposed = [o \in Workflows |->
                           [s \in StageSet |-> <<o, s>> \in D]]
    /\ disposeLog = [o \in Workflows |-> <<>>]
    /\ calls = [o \in Workflows |-> <<>>]
    /\ piped = [o \in Workflows |-> None]
    /\ loaded = [o \in Workflows |-> <<>>]
    /\ events = [o \in Workflows |-> <<>>]
    /\ exc = [o \in Workflows |-> None]
    /\ result = [o \in Workflows |-> None]

\* The command-line entry point is not part of the run.
CliOff ==
    /\ cliPc = "off"
    /\ configOutcome = None
    /\ cliSelected = <<>>
    /\ appSignals = <<>>
    /\ exitStatus = None

\* No FanInDataSource is part of the run.
FanInOff ==
    /\ fiPc = "off"
    /\ fiDisposed = FALSE
    /\ fiStack = <<>>
    /\ fiMemberDisposed = <<>>
    /\ fiExecDisposed = FALSE
    /\ fiFutures = <<>>
    /\ fiCompletion = <<>>
    /\ fiMemberDraws = <<>>
    /\ fiExc = None
    /\ fiResult = None
    /\ fiDrawn = 0

\* No FanOutDataSink is part of the run.
FanOutOff ==
    /\ foPc = "off"
    /\ foDisposed = FALSE
    /\ foExecDisposed = FALSE
    /\ foMemberDisposed = <<>>
    /\ foDrains = <<>>
    /\ foFutures = <<>>
    /\ foCalls = <<>>
    /\ foResult = None
    /\ foDrained = 0

\* No stage instance is considered on its own.
ImplOff ==
    /\ implKind = [name |-> "off", main |-> "off", guarded |-> {}]
    /\ implDisposed = FALSE
    /\ implCalls = 0
    /\ implDisposals = 0
    /\ implBodyRuns = 0
    /\ implLast = None

\* No WorkflowBuilder is part of the run.
BuilderOff ==
    /\ bldPc = "off"
    /\ bldSuppliers = <<>>
    /\ bldProcessors = <<>>
    /\ bldConsumers = <<>>
    /\ bldFactoryCalls = <<>>
    /\ bldDescriptor = None
    /\ bldLast = None
    /\ bldCalls = <<>>
    /\ bldConsumed = <<>>

\* usecases.run called directly, on a configuration whose factories all
\* yield an ETL workflow.
Init ==
    /\ EngineInit
    /\ factoryOutcome = "ok"
    /\ idOf = DistinctIds
    /\ CliOff
    /\ FanInOff
    /\ FanOutOff
    /\ ImplOff
    /\ BuilderOff

\* ------------------------------------------------------------------------
\* usecases.run
\* ------------------------------------------------------------------------

\* ETLWorkflow.id of a workflow object.
WfId(o) == idOf[o]

\* Variant: an id that is already in the registry keeps its first entry.
PutWorkflow_KeepFirst(reg, o) ==
    IF WfId(o) \in DOMAIN reg THEN reg
    ELSE [i \in DOMAIN reg \cup {WfId(o)} |-> IF i = WfId(o) THEN o ELSE reg[i]]

\* One step of the dict comprehension {workflow.id: workflow for ...}: the
\* entry of a workflow replaces an earlier entry with the same id.
PutWorkflow(reg, o) ==
    [i \in DOMAIN reg \cup {WfId(o)} |-> IF i = WfId(o) THEN o ELSE reg[i]]

RECURSIVE RegisterAll(_, _)
RegisterAll(reg, ws) ==
    IF ws = <<>> THEN reg
    ELSE RegisterAll(PutWorkflow(reg, Head(ws)), Tail(ws))

\* _init_and_register_workflows / list_workflows: the registry built from
\* the configured factories, in configuration order.
RegisteredWorkflows == RegisterAll(<<>>, Config)

\* `set(select)` of usecases.run, for a select that is not None.
SelectedSet(sel) == Range(sel.ids)

\* Variant: `intersection` in place of `difference`.
MissingWorkflows_Intersection(sel, reg) ==
    IF sel = None \/ SelectedSet(sel) = {}
    THEN {}
    ELSE SelectedSet(sel) \cap DOMAIN reg

\* `_selected and (missing_workflows := _selected.difference(workflows))`
MissingWorkflows(sel, reg) ==
    IF sel = None \/ SelectedSet(sel) = {}
    THEN {}
    ELSE SelectedSet(sel) \ DOMAIN reg

\* Variant: the filter reads `not _selected or wf_id in _selected`.
SelectedWorkflows_EmptyAsAll(sel, reg) ==
    {reg[i] : i \in {j \in DOMAIN reg :
                        \/ sel = None
                        \/ SelectedSet(sel) = {}
                        \/ j \in SelectedSet(sel)}}

\* [RunWorkflow(workflow) for wf_id, workflow in workflows.items()
\*  if _selected is None or wf_id in _selected]
SelectedWorkflows(sel, reg) ==
    {reg[i] : i \in {j \in DOMAIN reg :
                        sel = None \/ j \in SelectedSet(sel)}}

\* What `workflow_factory()` raises when a configured factory fails while
\* list_workflows builds the registry.
FactoryError == [type |-> "FactoryError"]

\* usecases.run(select) up to the submission of the selected workflows to
\* the concurrent executor.
Run(sel) ==
    /\ callerPc = "idle"
    /\ select' = sel
    /\ workflows' = IF factoryOutcome = "ok" THEN RegisteredWorkflows
                    ELSE workflows
    /\ LET missing == MissingWorkflows(sel, workflows')
           chosen == SelectedWorkflows(sel, workflows')
       IN IF factoryOutcome # "ok"
          THEN /\ runResult' = FactoryError
               /\ callerPc' = "done"
               /\ tasks' = {}
               /\ pc' = pc
          ELSE IF missing # {}
          THEN /\ runResult' = [type |-> "NoSuchWorkflowsError",
                                missing_workflows |-> missing]
               /\ callerPc' = "done"
               /\ tasks' = {}
               /\ pc' = pc
          ELSE IF chosen = {}
          THEN /\ runResult' = [type |-> "returned"]
               /\ callerPc' = "done"
               /\ tasks' = {}
               /\ pc' = pc
          ELSE /\ runResult' = None
               /\ callerPc' = "waiting"
               /\ tasks' = chosen
               /\ pc' = [o \in Workflows |->
                            IF o \in chosen THEN "start" ELSE pc[o]]
    /\ UNCHANGED <<otherVars, stack, acquireLog, isDisposed, disposeLog, calls, piped, loaded,
                   events, exc, result>>

\* Variant: the batch ends as soon as one task has failed.
RunReturn_FailFast ==
    /\ callerPc = "waiting"
    /\ \/ \A o \in tasks : pc[o] = "done"
       \/ \E o \in tasks : pc[o] = "done" /\ exc[o] # None
    /\ callerPc' = "done"
    /\ runResult' = [type |-> "returned"]
    /\ UNCHANGED <<otherVars, select, workflows, tasks, pc, stack, acquireLog,
                   isDisposed, disposeLog, calls, piped, loaded, events, exc,
                   result>>

\* Variant: the batch raises when one of its tasks has failed.
RunReturn_RaiseFailure ==
    /\ callerPc = "waiting"
    /\ \A o \in tasks : pc[o] = "done"
    /\ callerPc' = "done"
    /\ runResult' = IF \E o \in tasks : exc[o] # None
                    THEN [type |-> "WorkflowFailures"]
                    ELSE [type |-> "returned"]
    /\ UNCHANGED <<otherVars, select, workflows, tasks, pc, stack, acquireLog,
                   isDisposed, disposeLog, calls, piped, loaded, events, exc,
                   result>>

\* Leaving `with execute_concurrently(...)`: the executor is disposed, which
\* waits for every submitted task; the failures stay in the futures.
RunReturn ==
    /\ callerPc = "waiting"
    /\ \A o \in tasks : pc[o] = "done"
    /\ callerPc' = "done"
    /\ runResult' = [type |-> "returned"]
    /\ UNCHANGED <<otherVars, select, workflows, tasks, pc, stack, acquireLog,
                   isDisposed, disposeLog, calls, piped, loaded, events, exc,
                   result>>

\* ------------------------------------------------------------------------
\* RunWorkflow.execute
\* ------------------------------------------------------------------------

\* Variant: execute does not send the "starting" signal.
SendStarting_NoSignal(o) ==
    /\ pc[o] = "start"
    /\ pc' = [pc EXCEPT ![o] = "acquire"]
    /\ UNCHANGED <<otherVars, runVars, stack, acquireLog, isDisposed, disposeLog,
                   calls, piped, loaded, events, exc, result>>

\* sghi.app.dispatcher.send(signals.StartingETLWorkflow(...))
SendStarting(o) ==
    /\ pc[o] = "start"
    /\ events' = [events EXCEPT ![o] = Append(@, StartingETLWorkflow(o))]
    /\ pc' = [pc EXCEPT ![o] = "acquire"]
    /\ UNCHANGED <<otherVars, runVars, stack, acquireLog, isDisposed, disposeLog,
                   calls, piped, loaded, exc, result>>

\* Variant: the stages are entered loader first.
NextStage_LoaderFirst(o) == Stages[Len(Stages) - Len(stack[o])]

\* The next stage _run_etl_workflow enters: extractor, transformer, loader.
NextStage(o) == Stages[Len(stack[o]) + 1]

\* self._workflow_stack.enter_context(stage): the stage's guarded __enter__
\* raises ResourceDisposedError when the stage is disposed.
Acquire(o) ==
    /\ pc[o] = "acquire"
    /\ LET s == NextStage(o)
       IN IF isDisposed[o][s]
          THEN /\ exc' = [exc EXCEPT ![o] = ResourceDisposedError(o, s)]
               /\ pc' = [pc EXCEPT ![o] = "exit"]
               /\ UNCHANGED <<stack, acquireLog>>
          ELSE /\ stack' = [stack EXCEPT ![o] = Append(@, s)]
               /\ acquireLog' = [acquireLog EXCEPT ![o] = Append(@, s)]
               /\ pc' = [pc EXCEPT ![o] =
                            IF Len(stack[o]) + 1 = Len(Stages)
                            THEN "extract" ELSE "acquire"]
               /\ exc' = exc
    /\ UNCHANGED <<otherVars, runVars, isDisposed, disposeLog, calls, piped, loaded, events,
                   result>>

\* The outcome of the call of a stage: the guard, then the stage's body,
\* which returns (ok) or raises.
CallOutcome(o, s, ok) ==
    IF isDisposed[o][s] THEN ResourceDisposedError(o, s)
    ELSE IF ok THEN None
    ELSE StageError(o, s)

\* Variant: every task of the pipe receives the input of the task before.
Piped_Stale(arg, out) == arg

\* pipe(): the value handed to the next task is the result of the task
\* before it (`arg` went into that task, `out` came out of it).
Piped(arg, out) == out

\* Variant: the exception of a stage reaches the handler of execute
\* without passing through the exit of the scope.
AfterCall_SkipExit(e, next) == IF e = None THEN next ELSE "fail"

\* Where _run_etl_workflow goes after a stage call with outcome e: on to the
\* next stage, or out of the `with` block with the exception in flight.
AfterCall(e, next) == IF e = None THEN next ELSE "exit"

\* pipe(...)(None), first task: `lambda _: extractor()`
Extract(o) ==
    /\ pc[o] = "extract"
    /\ \E ok \in BOOLEAN :
          LET e == CallOutcome(o, "extractor", ok)
          IN /\ calls' = [calls EXCEPT ![o] = Append(@, <<"extractor", None>>)]
             /\ piped' = [piped EXCEPT ![o] =
                             IF e = None THEN Piped(None, Extracted(o)) ELSE @]
             /\ exc' = [exc EXCEPT ![o] = e]
             /\ pc' = [pc EXCEPT ![o] = AfterCall(e, "transform")]
    /\ UNCHANGED <<otherVars, runVars, stack, acquireLog, isDisposed, disposeLog,
                   loaded, events, result>>

\* pipe(...)(None), second task: transformer(<value in the pipe>)
Transform(o) ==
    /\ pc[o] = "transform"
    /\ \E ok \in BOOLEAN :
          LET e == CallOutcome(o, "transformer", ok)
          IN /\ calls' = [calls EXCEPT ![o] =
                             Append(@, <<"transformer", piped[o]>>)]
             /\ piped' = [piped EXCEPT ![o] =
                             IF e = None
                             THEN Piped(@, Transformed(o, @)) ELSE @]
             /\ exc' = [exc EXCEPT ![o] = e]
             /\ pc' = [pc EXCEPT ![o] = AfterCall(e, "load")]
    /\ UNCHANGED <<otherVars, runVars, stack, acquireLog, isDisposed, disposeLog,
                   loaded, events, result>>

\* pipe(...)(None), third task: loader(<value in the pipe>); a loader
\* returns None.
Load(o) ==
    /\ pc[o] = "load"
    /\ \E ok \in BOOLEAN :
          LET e == CallOutcome(o, "loader", ok)
          IN /\ calls' = [calls EXCEPT ![o] = Append(@, <<"loader", piped[o]>>)]
             /\ loaded' = [loaded EXCEPT ![o] =
                              IF e = None THEN Append(@, piped[o]) ELSE @]
             /\ piped' = [piped EXCEPT ![o] =
                             IF e = None THEN Piped(@, None) ELSE @]
             /\ exc' = [exc EXCEPT ![o] = e]
             /\ pc' = [pc EXCEPT ![o] = AfterCall(e, "exit")]
    /\ UNCHANGED <<otherVars, runVars, stack, acquireLog, isDisposed, disposeLog,
                   events, result>>

\* The sequence s reversed.
Reverse(s) == [i \in 1..Len(s) |-> s[Len(s) + 1 - i]]

\* Variant: the stages are released only when the pipe succeeded (cleanup
\* written after the pipe instead of in a scope).
Released_SuccessOnly(o) == IF exc[o] = None THEN Reverse(stack[o]) ELSE <<>>

\* Variant: every stage is released twice.
Released_Twice(o) == Reverse(stack[o]) \o Reverse(stack[o])

\* Variant: the stages are released first entered first.
Released_InOrder(o) == stack[o]

\* The stages ExitStack.__exit__ releases, in the order it releases them.
Released(o) == Reverse(stack[o])

\* Variant: the scope suppresses the exception in flight.
AfterExit_Suppress(e) == "complete"

\* Where execute goes after the `with` block: ExitStack.__exit__ does not
\* suppress an exception in flight, which reaches the handler of execute.
AfterExit(e) == IF e = None THEN "complete" ELSE "fail"

\* Leaving `with self._workflow_stack`: every entered stage is released
\* (Disposable.__exit__ calls dispose()), last entered first; an exception
\* in flight then continues to the handler of execute.
ExitStack(o) ==
    /\ pc[o] = "exit"
    /\ isDisposed' = [isDisposed EXCEPT ![o] =
                         [s \in StageSet |->
                             @[s] \/ s \in Range(Released(o))]]
    /\ disposeLog' = [disposeLog EXCEPT ![o] = @ \o Released(o)]
    /\ stack' = [stack EXCEPT ![o] = <<>>]
    /\ pc' = [pc EXCEPT ![o] = AfterExit(exc[o])]
    /\ UNCHANGED <<otherVars, runVars, acquireLog, calls, piped, loaded, events, exc, result>>

\* sghi.app.dispatcher.send(signals.CompletedETLWorkflow(...)); execute
\* returns None.
SendCompleted(o) ==
    /\ pc[o] = "complete"
    /\ events' = [events EXCEPT ![o] = Append(@, CompletedETLWorkflow(o))]
    /\ result' = [result EXCEPT ![o] = [type |-> "returned"]]
    /\ pc' = [pc EXCEPT ![o] = "done"]
    /\ UNCHANGED <<otherVars, runVars, stack, acquireLog, isDisposed, disposeLog,
                   calls, piped, loaded, exc>>

\* except Exception as exp: send(signals.ETLWorkflowFailed(..., exp))
SendFailed(o) ==
    /\ pc[o] = "fail"
    /\ events' = [events EXCEPT ![o] = Append(@, ETLWorkflowFailed(o, exc[o]))]
    /\ pc' = [pc EXCEPT ![o] = "reraise"]
    /\ UNCHANGED <<otherVars, runVars, stack, acquireLog, isDisposed, disposeLog,
                   calls, piped, loaded, exc, result>>

\* The outcome execute hands to its caller after the handler.
Raised(e) == [type |-> "raised", exception |-> e]

\* Variant: the handler of execute ends without `raise`.
Reraise_Swallow(o) ==
    /\ pc[o] = "reraise"
    /\ result' = [result EXCEPT ![o] = [type |-> "returned"]]
    /\ pc' = [pc EXCEPT ![o] = "done"]
    /\ UNCHANGED <<otherVars, runVars, stack, acquireLog, isDisposed, disposeLog,
                   calls, piped, loaded, events, exc>>

\* `raise` at the end of the handler of execute.
Reraise(o) ==
    /\ pc[o] = "reraise"
    /\ result' = [result EXCEPT ![o] = Raised(exc[o])]
    /\ pc' = [pc EXCEPT ![o] = "done"]
    /\ UNCHANGED <<otherVars, runVars, stack, acquireLog, isDisposed, disposeLog,
                   calls, piped, loaded, events, exc>>

\* A step of the task RunWorkflow(o) on its worker thread.
TaskStep(o) ==
    \/ SendStarting(o)
    \/ Acquire(o)
    \/ Extract(o)
    \/ Transform(o)
    \/ Load(o)
    \/ ExitStack(o)
    \/ SendCompleted(o)
    \/ SendFailed(o)
    \/ Reraise(o)

Next ==
    \/ \E sel \in SelectInputs : Run(sel)
    \/ RunReturn
    \/ \E o \in Workflows : SendStarting(o)
    \/ \E o \in Workflows : Acquire(o)
    \/ \E o \in Workflows : Extract(o)
    \/ \E o \in Workflows : Transform(o)
    \/ \E o \in Workflows : Load(o)
    \/ \E o \in Workflows : ExitStack(o)
    \/ \E o \in Workflows : SendCompleted(o)
    \/ \E o \in Workflows : SendFailed(o)
    \/ \E o \in Workflows : Reraise(o)

Spec == Init /\ [][Next]_vars

\* ------------------------------------------------------------------------
\* RunWorkflow.execute when a signal handler or a stage's dispose() raises
\* ------------------------------------------------------------------------

\* The exception a handler connected to the dispatcher raised while the
\* signal of the given kind was delivered for workflow o; send() hands it
\* to its caller.
HandlerError(o, kind) == [type |-> "HandlerError", wf |-> o, during |-> kind]

\* The exception dispose() of a stage raised.
DisposeError(o, s) == [type |-> "DisposeError", wf |-> o, stage |-> s]

\* send(StartingETLWorkflow) inside `try`: the signal is delivered and a
\* handler raises; no stage has been entered.
SendStartingRaises(o) ==
    /\ pc[o] = "start"
    /\ events' = [events EXCEPT ![o] = Append(@, StartingETLWorkflow(o))]
    /\ exc' = [exc EXCEPT ![o] = HandlerError(o, "starting")]
    /\ pc' = [pc EXCEPT ![o] = "fail"]
    /\ UNCHANGED <<otherVars, runVars, stack, acquireLog, isDisposed, disposeLog,
                   calls, piped, loaded, result>>

\* Leaving `with self._workflow_stack` when dispose() of the entered stage
\* s raises: ExitStack.__exit__ still releases the other stages and then
\* raises the exception of s, which replaces the one in flight.  Whether s
\* ends up disposed is up to its dispose().
ExitStackDisposeRaises(o) ==
    /\ pc[o] = "exit"
    /\ \E s \in Range(stack[o]), disposed \in BOOLEAN :
          /\ isDisposed' = [isDisposed EXCEPT ![o] =
                               [t \in StageSet |->
                                   IF t = s THEN @[t] \/ disposed
                                   ELSE @[t] \/ t \in Range(Released(o))]]
          /\ exc' = [exc EXCEPT ![o] = DisposeError(o, s)]
    /\ disposeLog' = [disposeLog EXCEPT ![o] = @ \o Released(o)]
    /\ stack' = [stack EXCEPT ![o] = <<>>]
    /\ pc' = [pc EXCEPT ![o] = "fail"]
    /\ UNCHANGED <<otherVars, runVars, acquireLog, calls, piped, loaded, events,
                   result>>

\* send(CompletedETLWorkflow) inside `try`: the signal is delivered and a
\* handler raises, which takes execute to `except Exception`.
SendCompletedRaises(o) ==
    /\ pc[o] = "complete"
    /\ events' = [events EXCEPT ![o] = Append(@, CompletedETLWorkflow(o))]
    /\ exc' = [exc EXCEPT ![o] = HandlerError(o, "completed")]
    /\ pc' = [pc EXCEPT ![o] = "fail"]
    /\ UNCHANGED <<otherVars, runVars, stack, acquireLog, isDisposed, disposeLog,
                   calls, piped, loaded, result>>

\* send(ETLWorkflowFailed) inside the handler of execute: the signal is
\* delivered and a handler raises; the exception leaves execute instead of
\* the one `raise` would have re-raised.
SendFailedRaises(o) ==
    /\ pc[o] = "fail"
    /\ events' = [events EXCEPT ![o] = Append(@, ETLWorkflowFailed(o, exc[o]))]
    /\ result' = [result EXCEPT ![o] = Raised(HandlerError(o, "failed"))]
    /\ pc' = [pc EXCEPT ![o] = "done"]
    /\ UNCHANGED <<otherVars, runVars, stack, acquireLog, isDisposed, disposeLog,
                   calls, piped, loaded, exc>>

\* A run of every configured workflow in which handlers and dispose() may
\* raise.
DeliveryNext ==
    \/ Run(None)
    \/ RunReturn
    \/ \E o \in Workflows : TaskStep(o)
    \/ \E o \in Workflows : SendStartingRaises(o)
    \/ \E o \in Workflows : ExitStackDisposeRaises(o)
    \/ \E o \in Workflows : SendCompletedRaises(o)
    \/ \E o \in Workflows : SendFailedRaises(o)

DeliverySpec == Init /\ [][DeliveryNext]_vars

\* ------------------------------------------------------------------------
\* usecases.run on factories whose workflows may share an id
\* ------------------------------------------------------------------------

\* The configured factories give their workflows any of the ids, so two of
\* them may produce workflows with the same id.
CollisionInit ==
    /\ EngineInit
    /\ isDisposed = [o \in Workflows |-> [s \in StageSet |-> FALSE]]
    /\ factoryOutcome = "ok"
    /\ idOf \in [Workflows -> KnownIds]
    /\ CliOff
    /\ FanInOff
    /\ FanOutOff
    /\ ImplOff
    /\ BuilderOff

CollisionSpec == CollisionInit /\ [][Next]_vars

\* ------------------------------------------------------------------------
\* Running a workflow object again
\* ------------------------------------------------------------------------

\* How many times execute is started for one workflow object.
MaxRuns == 2

\* How many runs of workflow o have been started.
Runs(o) ==
    Cardinality({i \in DOMAIN events[o] : events[o][i].kind = "starting"})

\* Variant: the second run gets stages that were never disposed.
Rerun_FreshStages(o) ==
    /\ pc[o] = "done"
    /\ Runs(o) < MaxRuns
    /\ pc' = [pc EXCEPT ![o] = "start"]
    /\ isDisposed' = [isDisposed EXCEPT ![o] = [s \in StageSet |-> FALSE]]
    /\ exc' = [exc EXCEPT ![o] = None]
    /\ result' = [result EXCEPT ![o] = None]
    /\ piped' = [piped EXCEPT ![o] = None]
    /\ UNCHANGED <<otherVars, runVars, stack, acquireLog, disposeLog, calls,
                   loaded, events>>

\* execute is called again for the workflow object o after its run has
\* ended: the ETLWorkflow hands out the same extractor, transformer and
\* loader instances, in whatever state the earlier run left them.
Rerun(o) ==
    /\ pc[o] = "done"
    /\ Runs(o) < MaxRuns
    /\ pc' = [pc EXCEPT ![o] = "start"]
    /\ exc' = [exc EXCEPT ![o] = None]
    /\ result' = [result EXCEPT ![o] = None]
    /\ piped' = [piped EXCEPT ![o] = None]
    /\ UNCHANGED <<otherVars, runVars, stack, acquireLog, isDisposed,
                   disposeLog, calls, loaded, events>>

RerunNext ==
    \/ Run(None)
    \/ RunReturn
    \/ \E o \in Workflows : TaskStep(o)
    \/ \E o \in Workflows : Rerun(o)

RerunSpec == Init /\ [][RerunNext]_vars

\* ------------------------------------------------------------------------
\* The command-line entry point: `ml-pipeline run` (runtime/__main__.py)
\* ------------------------------------------------------------------------

\* sys.exit(2) of _configure_runtime.
LoadConfigErrorStatus == 2

\* sys.exit(3) of _configure_runtime.
ConfigurationErrorStatus == 3

\* sys.exit(5) of the `run` command.
UnhandledRuntimeErrorStatus == 5

\* What load_config_file and sghi.app.setup do.
ConfigOutcomes == {"ok", "LoadConfigError", "ConfigurationError"}

\* What a configured workflow factory does when it is called.
FactoryOutcomes == {"ok", "raises"}

\* The values of the --select options: a tuple of ids, empty by default.
SelectOptions == SeqsUpTo(Ids, MaxSelectLen)

AppReady == [kind |-> "app_ready"]
AppStopping == [kind |-> "app_stopping"]
ConfigFailed(exp) == [kind |-> "config_failed", exception |-> exp]
UnhandledRuntimeErrorSignal(exp) ==
    [kind |-> "unhandled_runtime_error", exception |-> exp]

\* `selected if selected else None`
SelectArgument(selected) ==
    IF selected = <<>> THEN None ELSE IdSequence(selected)

\* _configure_runtime: a failure to load or to apply the configuration is
\* signalled and ends the process.
ConfigureRuntime(outcome) ==
    /\ cliPc = "main"
    /\ configOutcome' = outcome
    /\ IF outcome = "LoadConfigError"
       THEN /\ appSignals' = Append(appSignals, ConfigFailed(outcome))
            /\ exitStatus' = LoadConfigErrorStatus
            /\ cliPc' = "exited"
       ELSE IF outcome = "ConfigurationError"
       THEN /\ appSignals' = Append(appSignals, ConfigFailed(outcome))
            /\ exitStatus' = ConfigurationErrorStatus
            /\ cliPc' = "exited"
       ELSE /\ appSignals' = appSignals
            /\ exitStatus' = exitStatus
            /\ cliPc' = "command"
    /\ UNCHANGED <<nonCliVars, cliSelected>>

\* The `run` command up to the call of usecases.run.
RunCommand(selected) ==
    /\ cliPc = "command"
    /\ cliSelected' = selected
    /\ appSignals' = Append(appSignals, AppReady)
    /\ cliPc' = "run"
    /\ UNCHANGED <<nonCliVars, configOutcome, exitStatus>>

\* `_run(select=selected if selected else None)`
RunCommandCall ==
    /\ cliPc = "run"
    /\ Run(SelectArgument(cliSelected))

\* The `run` command after usecases.run: AppStopping and a normal end of
\* the process when it returned, the handler of `except Exception` when it
\* raised.
RunCommandEnd ==
    /\ cliPc = "run"
    /\ callerPc = "done"
    /\ IF runResult.type = "returned"
       THEN /\ appSignals' = Append(appSignals, AppStopping)
            /\ exitStatus' = 0
       ELSE /\ appSignals' =
                   Append(appSignals, UnhandledRuntimeErrorSignal(runResult))
            /\ exitStatus' = UnhandledRuntimeErrorStatus
    /\ cliPc' = "exited"
    /\ UNCHANGED <<nonCliVars, configOutcome, cliSelected>>

\* The process started from the command line.
CliInit ==
    /\ EngineInit
    /\ factoryOutcome \in FactoryOutcomes
    /\ idOf = DistinctIds
    /\ cliPc = "main"
    /\ configOutcome = None
    /\ cliSelected = <<>>
    /\ appSignals = <<>>
    /\ exitStatus = None
    /\ FanInOff
    /\ FanOutOff
    /\ ImplOff
    /\ BuilderOff

CliNext ==
    \/ \E outcome \in ConfigOutcomes : ConfigureRuntime(outcome)
    \/ \E selected \in SelectOptions : RunCommand(selected)
    \/ RunCommandCall
    \/ RunReturn
    \/ \E o \in Workflows : TaskStep(o)
    \/ RunCommandEnd

CliSpec == CliInit /\ [][CliNext]_vars

\* ------------------------------------------------------------------------
\* Members, futures and outcomes of the aggregates (lib/common)
\* ------------------------------------------------------------------------

\* The positions of the member sources in _data_sources.
Sources == 1..NumSources

\* The positions of the member sinks in _data_sinks.
Sinks == 1..NumSinks

\* The ResourceDisposedError that the @not_disposed guard of a resource
\* raises.
DisposedError(resource) ==
    [type |-> "ResourceDisposedError", resource |-> resource]

\* What the body of member m raises when it fails.
MemberError(m) == [type |-> "MemberError", member |-> m]

\* The states of the concurrent.futures.Future of a submitted task.
NotSubmitted == [state |-> "none"]
Pending == [state |-> "pending"]
Succeeded(v) == [state |-> "succeeded", value |-> v]
Failed(e) == [state |-> "failed", exception |-> e]

\* A call that returned v, a call that raised e.
Returned(v) == [type |-> "returned", value |-> v]
RaisedError(e) == [type |-> "raised", exception |-> e]

\* The engine is not running a batch of workflows.
EngineIdle ==
    /\ EngineInit
    /\ isDisposed = [o \in Workflows |-> [s \in StageSet |-> FALSE]]
    /\ factoryOutcome = "ok"
    /\ idOf = DistinctIds

\* ------------------------------------------------------------------------
\* FanInDataSource (lib/common/data_sources.py)
\* ------------------------------------------------------------------------

\* What member source m returns from draw().
Drawn(m) == <<"drawn", m>>

SourceEntry(m) == <<"source", m>>
ExecutorEntry == <<"executor", 0>>

\* Variant: every future passes the filter.
FutureSucceeded_Any(f) == TRUE

\* sghi.utils.future_succeeded: the future ended without an exception.
FutureSucceeded(f) == f.state = "succeeded"

\* Variant: the futures are taken as they complete.
TaskOrder_AsCompleted == fiCompletion

\* The executor returns one future per task, in the order of its tasks,
\* which is the order of _data_sources.
TaskOrder == [i \in 1..NumSources |-> i]

\* [future.result() for future in filter(future_succeeded, futures)];
\* future.result() raises the exception of a failed future.
RECURSIVE CollectResults(_, _)
CollectResults(futs, order) ==
    IF order = <<>> THEN Returned(<<>>)
    ELSE LET f == futs[Head(order)]
             rest == CollectResults(futs, Tail(order))
         IN IF ~FutureSucceeded(f) THEN rest
            ELSE IF f.state = "failed" THEN RaisedError(f.exception)
            ELSE IF rest.type = "raised" THEN rest
            ELSE Returned(<<f.value>> \o rest.value)

\* Variant: leaving the block releases nothing.
Held_Never(stk, entry) == FALSE

\* The entries of an ExitStack are released when it is closed or left.
Held(stk, entry) == \E i \in 1..Len(stk) : stk[i] = entry

\* draw() up to `with self._exit_stack:`; the @not_disposed guard raises on
\* a disposed aggregate.
FanInDraw ==
    /\ fiPc = "idle"
    /\ fiDrawn < MaxDraws
    /\ fiFutures' = [m \in Sources |-> NotSubmitted]
    /\ fiCompletion' = <<>>
    /\ IF fiDisposed
       THEN /\ fiResult' = RaisedError(DisposedError("FanInDataSource"))
            /\ fiDrawn' = fiDrawn + 1
            /\ UNCHANGED <<fiPc, fiExc>>
       ELSE /\ fiPc' = "enter"
            /\ fiResult' = None
            /\ fiExc' = None
            /\ fiDrawn' = fiDrawn
    /\ UNCHANGED <<nonFanInVars, fiDisposed, fiStack, fiMemberDisposed,
                   fiExecDisposed, fiMemberDraws>>

\* self._exit_stack.enter_context(_data_source) for the next member source.
FanInEnter ==
    /\ fiPc = "enter"
    /\ Len(fiStack) < NumSources
    /\ LET m == Len(fiStack) + 1
       IN IF fiMemberDisposed[m]
          THEN /\ fiExc' = DisposedError(SourceEntry(m))
               /\ fiPc' = "exit"
               /\ fiStack' = fiStack
          ELSE /\ fiStack' = Append(fiStack, SourceEntry(m))
               /\ UNCHANGED <<fiPc, fiExc>>
    /\ UNCHANGED <<nonFanInVars, fiDisposed, fiMemberDisposed,
                   fiExecDisposed, fiFutures, fiCompletion, fiMemberDraws,
                   fiResult, fiDrawn>>

\* self._exit_stack.enter_context(self._executor)(None): the executor is
\* entered and submits one task per member source.
FanInSubmit ==
    /\ fiPc = "enter"
    /\ Len(fiStack) = NumSources
    /\ IF fiExecDisposed
       THEN /\ fiExc' = DisposedError("ConcurrentExecutor")
            /\ UNCHANGED <<fiStack, fiFutures>>
       ELSE /\ fiStack' = Append(fiStack, ExecutorEntry)
            /\ fiFutures' = [m \in Sources |-> Pending]
            /\ fiExc' = fiExc
    /\ fiPc' = "exit"
    /\ UNCHANGED <<nonFanInVars, fiDisposed, fiMemberDisposed,
                   fiExecDisposed, fiCompletion, fiMemberDraws, fiResult,
                   fiDrawn>>

\* A worker thread runs the task of member m: `data_source.draw()`.
FanInMemberDraw(m) ==
    /\ fiFutures[m] = Pending
    /\ fiCompletion' = Append(fiCompletion, m)
    /\ IF fiMemberDisposed[m]
       THEN /\ fiFutures' =
                   [fiFutures EXCEPT ![m] = Failed(DisposedError(SourceEntry(m)))]
            /\ fiMemberDraws' = fiMemberDraws
       ELSE /\ fiMemberDraws' = [fiMemberDraws EXCEPT ![m] = @ + 1]
            /\ \E ok \in BOOLEAN :
                  fiFutures' =
                     [fiFutures EXCEPT
                        ![m] = IF ok THEN Succeeded(Drawn(m))
                               ELSE Failed(MemberError(m))]
    /\ UNCHANGED <<nonFanInVars, fiPc, fiDisposed, fiStack, fiMemberDisposed,
                   fiExecDisposed, fiExc, fiResult, fiDrawn>>

\* Leaving `with self._exit_stack:`: the entries are released last in,
\* first out.  Releasing the executor waits for its tasks; then the member
\* sources are disposed.  After the block the succeeded results are
\* collected, unless an exception left the block.
FanInExit ==
    /\ fiPc = "exit"
    /\ Held(fiStack, ExecutorEntry) => \A m \in Sources : fiFutures[m] # Pending
    /\ fiExecDisposed' = (fiExecDisposed \/ Held(fiStack, ExecutorEntry))
    /\ fiMemberDisposed' =
          [m \in Sources |->
              fiMemberDisposed[m] \/ Held(fiStack, SourceEntry(m))]
    /\ fiStack' = <<>>
    /\ fiResult' = IF fiExc # None THEN RaisedError(fiExc)
                   ELSE CollectResults(fiFutures, TaskOrder)
    /\ fiExc' = None
    /\ fiPc' = "idle"
    /\ fiDrawn' = fiDrawn + 1
    /\ UNCHANGED <<nonFanInVars, fiDisposed, fiFutures, fiCompletion,
                   fiMemberDraws>>

\* dispose(): the flag is set, the exit stack is closed and the executor
\* is disposed.
FanInDispose ==
    /\ fiPc = "idle"
    /\ fiDisposed' = TRUE
    /\ fiMemberDisposed' =
          [m \in Sources |->
              fiMemberDisposed[m] \/ Held(fiStack, SourceEntry(m))]
    /\ fiStack' = <<>>
    /\ fiExecDisposed' = TRUE
    /\ UNCHANGED <<nonFanInVars, fiPc, fiFutures, fiCompletion,
                   fiMemberDraws, fiExc, fiResult, fiDrawn>>

\* A FanInDataSource after construction, over member sources that are not
\* disposed.
FanInInit ==
    /\ EngineIdle
    /\ CliOff
    /\ FanOutOff
    /\ ImplOff
    /\ BuilderOff
    /\ fiPc = "idle"
    /\ fiDisposed = FALSE
    /\ fiStack = <<>>
    /\ fiMemberDisposed = [m \in Sources |-> FALSE]
    /\ fiExecDisposed = FALSE
    /\ fiFutures = [m \in Sources |-> NotSubmitted]
    /\ fiCompletion = <<>>
    /\ fiMemberDraws = [m \in Sources |-> 0]
    /\ fiExc = None
    /\ fiResult = None
    /\ fiDrawn = 0

FanInNext ==
    \/ FanInDraw
    \/ FanInEnter
    \/ FanInSubmit
    \/ \E m \in Sources : FanInMemberDraw(m)
    \/ FanInExit
    \/ FanInDispose

FanInSpec == FanInInit /\ [][FanInNext]_vars

\* ------------------------------------------------------------------------
\* FanOutDataSink (lib/common/data_sinks.py)
\* ------------------------------------------------------------------------

\* The values a caller drains.
Batches == {"batch_a", "batch_b"}

\* Variant: only the first member sink is given a task.
SubmittedFutures_FirstOnly ==
    [m \in Sinks |-> IF m = 1 THEN Pending ELSE NotSubmitted]

\* self._executor(an_input=processed_data): one task per member sink, the
\* tasks being the members of _data_sinks.
SubmittedFutures == [m \in Sinks |-> Pending]

\* drain(v), or __call__(v) which carries the @not_disposed guard and
\* delegates to drain.  drain has no guard of its own; the executor it
\* calls raises when it is disposed.  Nothing is ever put on _exit_stack,
\* so leaving the with block waits for nothing, and the futures that the
\* executor returns are dropped.
FanOutDrain(v, viaCall) ==
    /\ foPc = "idle"
    /\ foDrained < MaxDrains
    /\ foDrained' = foDrained + 1
    /\ IF viaCall /\ foDisposed
       THEN /\ foResult' = RaisedError(DisposedError("FanOutDataSink"))
            /\ UNCHANGED <<foDrains, foFutures>>
       ELSE IF foExecDisposed
       THEN /\ foResult' = RaisedError(DisposedError("ConcurrentExecutor"))
            /\ UNCHANGED <<foDrains, foFutures>>
       ELSE /\ foDrains' = Append(foDrains, v)
            /\ foFutures' = Append(foFutures, SubmittedFutures)
            /\ foResult' = Returned(None)
    /\ UNCHANGED <<nonFanOutVars, foPc, foDisposed, foExecDisposed,
                   foMemberDisposed, foCalls>>

\* A worker thread runs the task of member sink m for the d-th accepted
\* drain: the sink is invoked with the drained value.
FanOutMemberDrain(d, m) ==
    /\ d \in 1..Len(foFutures)
    /\ foFutures[d][m] = Pending
    /\ IF foMemberDisposed[m]
       THEN /\ foFutures' =
                   [foFutures EXCEPT
                      ![d][m] = Failed(DisposedError(<<"sink", m>>))]
            /\ foCalls' = foCalls
       ELSE /\ foCalls' = [foCalls EXCEPT ![m][foDrains[d]] = @ + 1]
            /\ \E ok \in BOOLEAN :
                  foFutures' =
                     [foFutures EXCEPT
                        ![d][m] = IF ok THEN Succeeded(None)
                                  ELSE Failed(MemberError(m))]
    /\ UNCHANGED <<nonFanOutVars, foPc, foDisposed, foExecDisposed,
                   foMemberDisposed, foDrains, foResult, foDrained>>

\* dispose() up to self._executor.dispose(): the flag is set and the empty
\* exit stack is closed.
FanOutDisposeBegin ==
    /\ foPc = "idle"
    /\ foDisposed' = TRUE
    /\ foPc' = "disposing"
    /\ UNCHANGED <<nonFanOutVars, foExecDisposed, foMemberDisposed, foDrains,
                   foFutures, foCalls, foResult, foDrained>>

\* self._executor.dispose() waits for the submitted tasks and returns.
FanOutDisposeEnd ==
    /\ foPc = "disposing"
    /\ \A d \in 1..Len(foFutures) : \A m \in Sinks : foFutures[d][m] # Pending
    /\ foExecDisposed' = TRUE
    /\ foPc' = "idle"
    /\ UNCHANGED <<nonFanOutVars, foDisposed, foMemberDisposed, foDrains,
                   foFutures, foCalls, foResult, foDrained>>

\* A FanOutDataSink after construction, over member sinks that are not
\* disposed.
FanOutInit ==
    /\ EngineIdle
    /\ CliOff
    /\ FanInOff
    /\ ImplOff
    /\ BuilderOff
    /\ foPc = "idle"
    /\ foDisposed = FALSE
    /\ foExecDisposed = FALSE
    /\ foMemberDisposed = [m \in Sinks |-> FALSE]
    /\ foDrains = <<>>
    /\ foFutures = <<>>
    /\ foCalls = [m \in Sinks |-> [v \in Batches |-> 0]]
    /\ foResult = None
    /\ foDrained = 0

FanOutNext ==
    \/ \E v \in Batches, viaCall \in BOOLEAN : FanOutDrain(v, viaCall)
    \/ \E d \in 1..MaxDrains, m \in Sinks : FanOutMemberDrain(d, m)
    \/ FanOutDisposeBegin
    \/ FanOutDisposeEnd

FanOutSpec == FanOutInit /\ [][FanOutNext]_vars

\* ------------------------------------------------------------------------
\* The stage classes of the repository that wrap a callable or a backend:
\* `main` is the operation of the stage, `guarded` the operations that
\* carry the @not_disposed guard.  __call__ delegates to `main`.
\* ------------------------------------------------------------------------

DataSourceOfCallable ==
    [name |-> "_DataSourceOfCallable", main |-> "draw",
     guarded |-> {"__call__", "draw"}]

NoOpDataProcessor ==
    [name |-> "NoOpDataProcessor", main |-> "process",
     guarded |-> {"__call__", "process"}]

DataProcessorOfCallable ==
    [name |-> "_DataProcessorOfCallable", main |-> "process",
     guarded |-> {"__call__"}]

NullDataSink ==
    [name |-> "NullDataSink", main |-> "drain",
     guarded |-> {"__call__", "drain"}]

DataSinkOfCallable ==
    [name |-> "_DataSinkOfCallable", main |-> "drain",
     guarded |-> {"__call__", "drain"}]

NoOpLoad ==
    [name |-> "NoOpLoad", main |-> "__call__", guarded |-> {"__call__"}]

SimpleGoogleStorage ==
    [name |-> "SimpleGoogleStorage", main |-> "__call__", guarded |-> {}]

SimpleBQueryExtract ==
    [name |-> "SimpleBQueryExtract", main |-> "__call__",
     guarded |-> {"__call__"}]

ProcessTestData ==
    [name |-> "ProcessTestData", main |-> "__call__",
     guarded |-> {"__call__"}]

ProcessTrainingData ==
    [name |-> "ProcessTrainingData", main |-> "__call__",
     guarded |-> {"__call__"}]

StageClasses ==
    {DataSourceOfCallable, NoOpDataProcessor, DataProcessorOfCallable,
     NullDataSink, DataSinkOfCallable, NoOpLoad, SimpleGoogleStorage,
     SimpleBQueryExtract, ProcessTestData, ProcessTrainingData}

\* The operations a caller can invoke on an instance of class c.
Operations(c) == {"__call__", c.main}

\* The methods that run, in order, when op is invoked on an instance of c.
CallPath(c, op) ==
    IF op = "__call__" /\ c.main # "__call__"
    THEN <<"__call__", c.main>>
    ELSE <<op>>

\* No guard on the way stops the call: the body of the operation runs.
ReachesBody(c, op, disposed) ==
    \/ ~disposed
    \/ \A i \in 1..Len(CallPath(c, op)) : CallPath(c, op)[i] \notin c.guarded

\* What the body of the operation raises when it fails.
BodyError(c) == [type |-> "BodyError", class |-> c.name]

\* Variant: dispose() flips the flag.
StageDispose_Toggle ==
    /\ implKind \in StageClasses
    /\ implDisposals < MaxStageCalls
    /\ implDisposals' = implDisposals + 1
    /\ implDisposed' = ~implDisposed
    /\ UNCHANGED <<nonImplVars, implKind, implCalls, implBodyRuns, implLast>>

\* dispose() of the instance: `self._is_disposed = True`, and the client of
\* a backend is closed.
StageDispose ==
    /\ implKind \in StageClasses
    /\ implDisposals < MaxStageCalls
    /\ implDisposals' = implDisposals + 1
    /\ implDisposed' = TRUE
    /\ UNCHANGED <<nonImplVars, implKind, implCalls, implBodyRuns, implLast>>

\* A call of op on the instance: a guard raises ResourceDisposedError, or
\* the body runs and returns or raises.
StageInvoke(op) ==
    /\ implKind \in StageClasses
    /\ op \in Operations(implKind)
    /\ implCalls < MaxStageCalls
    /\ implCalls' = implCalls + 1
    /\ LET ran == ReachesBody(implKind, op, implDisposed)
       IN /\ implBodyRuns' = IF ran THEN implBodyRuns + 1 ELSE implBodyRuns
          /\ \E ok \in BOOLEAN :
                implLast' =
                   [op |-> op, disposed |-> implDisposed, bodyRan |-> ran,
                    outcome |->
                       IF ~ran
                       THEN RaisedError(DisposedError(implKind.name))
                       ELSE IF ok THEN Returned(op)
                       ELSE RaisedError(BodyError(implKind))]
    /\ UNCHANGED <<nonImplVars, implKind, implDisposed, implDisposals>>

\* One instance of one of the stage classes, after construction.
StageInit ==
    /\ EngineIdle
    /\ CliOff
    /\ FanInOff
    /\ FanOutOff
    /\ BuilderOff
    /\ implKind \in StageClasses
    /\ implDisposed = FALSE
    /\ implCalls = 0
    /\ implDisposals = 0
    /\ implBodyRuns = 0
    /\ implLast = None

StageNext ==
    \/ StageDispose
    \/ \E op \in {"__call__", "draw", "process", "drain"} : StageInvoke(op)

StageSpec == StageInit /\ [][StageNext]_vars

\* ------------------------------------------------------------------------
\* WorkflowBuilder (lib/common/workflow_builder.py), the descriptor it builds
\* (lib/common/workflow_descriptors.py) and the defaults of the DataSink and
\* DataProcessor interfaces (domain.py)
\* ------------------------------------------------------------------------

\* Instances of classes that implement DataSource, DataSink, DataProcessor,
\* and an object that implements none of them.
SourceInstance(k) == [type |-> "DataSource", id |-> k]
SinkInstance(k) == [type |-> "DataSink", id |-> k]
ProcessorInstance == [type |-> "DataProcessor", id |-> 1]
NotAStage == [type |-> "object", id |-> 0]

\* An instance of a DataSink class that also defines __len__ (a sink that
\* buffers what it is given), with nothing buffered.
SizedSink == [type |-> "DataSink", id |-> 0, len |-> 0]

OfferedSources == {SourceInstance(1), SourceInstance(2)}
OfferedSinks == {SinkInstance(1), SinkInstance(2), SizedSink}

\* Python's truth value of x: None is false, an object whose class defines
\* __len__ is false when its length is 0, every other object is true.
Truthy(x) == x # None /\ ~("len" \in DOMAIN x /\ x.len = 0)

ValueError == [type |-> "ValueError"]
TypeError == [type |-> "TypeError"]

\* Variant: every object passes.
IsDataSource_Any(x) == TRUE

\* isinstance(x, DataSource)
IsDataSource(x) == x.type \in {"DataSource", "FanInDataSource"}

\* isinstance(x, DataSink)
IsDataSink(x) == x.type \in {"DataSink", "FanOutDataSink", "NullDataSink"}

\* Variant: no min_len validator.
NewFanInDataSource_NoMinLen(members) ==
    Returned([type |-> "FanInDataSource", members |-> members])

\* FanInDataSource(members): the validator min_len(1) of _data_sources
\* raises ValueError and no instance is made.
NewFanInDataSource(members) ==
    IF Len(members) < 1 THEN RaisedError(ValueError)
    ELSE Returned([type |-> "FanInDataSource", members |-> members])

\* FanOutDataSink(members), with the same validator on _data_sinks.
NewFanOutDataSink(members) ==
    IF Len(members) < 1 THEN RaisedError(ValueError)
    ELSE Returned([type |-> "FanOutDataSink", members |-> members])

NewNullDataSink == [type |-> "NullDataSink"]
NewNoOpDataProcessor == [type |-> "NoOpDataProcessor"]

\* Variant: the new entry is put in front.
Registered_Prepend(entries, x) == <<x>> \o entries

\* `self._data_suppliers.append(supplier)`, and `extend` entry by entry.
Registered(entries, x) == Append(entries, x)

\* Variant: an empty list yields the first offered source.
BuildSupplier_Default(sups) ==
    IF sups = <<>> THEN Returned(SourceInstance(1))
    ELSE IF Len(sups) >= 2 THEN NewFanInDataSource(sups)
    ELSE Returned(sups[1])

\* _build_supplier, with the default composite_supplier_factory.
BuildSupplier(sups) ==
    IF sups = <<>> THEN RaisedError(ValueError)
    ELSE IF Len(sups) >= 2 THEN NewFanInDataSource(sups)
    ELSE Returned(sups[1])

\* _build_consumer, with the default composite_consumer_factory and
\* default_consumer_factory.
BuildConsumer(cons) ==
    IF Len(cons) >= 2 THEN NewFanOutDataSink(cons)
    ELSE IF Len(cons) >= 1 THEN Returned(cons[1])
    ELSE Returned(NewNullDataSink)

\* The factories that build() calls, in order, with their arguments.
FactoryCalls(sups, cons) ==
    (IF Len(sups) >= 2
     THEN <<[factory |-> "composite_supplier_factory", args |-> sups]>>
     ELSE <<>>)
    \o <<[factory |-> "default_processor_factory", args |-> <<>>]>>
    \o (IF Len(cons) >= 2
        THEN <<[factory |-> "composite_consumer_factory", args |-> cons]>>
        ELSE IF Len(cons) >= 1 THEN <<>>
        ELSE <<[factory |-> "default_consumer_factory", args |-> <<>>]>>)

\* SimpleWorkflowDescriptor.of: `data_processor or NoOpDataProcessor()` and
\* `data_consumer or NullDataSink()`.
DescriptorOf(sup, proc, con) ==
    [data_supplier |-> sup,
     data_processor |-> IF Truthy(proc) THEN proc ELSE NewNoOpDataProcessor,
     data_consumer |-> IF Truthy(con) THEN con ELSE NewNullDataSink]

\* Variant: the discard sink keeps what it is given.
Drained_NullKeeps(sink, log, v) == Append(log, <<sink, v>>)

\* drain(v) of a sink: NullDataSink.drain only logs a debug message; the
\* drain of another sink class consumes v.
Drained(sink, log, v) ==
    IF sink.type = "NullDataSink" THEN log ELSE Append(log, <<sink, v>>)

\* Variant: __call__ does not delegate.
CalledAsCallable_NoOp(sink, log, v) == log

\* DataSink.__call__: `return self.drain(processed_data)`
CalledAsCallable(sink, log, v) == Drained(sink, log, v)

\* Variant: the processor returns the same value for every input.
Processed_Fixed(proc, x) == "batch_a"

\* NoOpDataProcessor.process: `return raw_data`
Processed(proc, x) == x

\* add_supplier(x)
AddSupplier(x) ==
    /\ bldPc = "ready"
    /\ Len(bldSuppliers) + Len(bldConsumers) < MaxRegistered
    /\ IF IsDataSource(x)
       THEN /\ bldSuppliers' = Registered(bldSuppliers, x)
            /\ bldLast' = [op |-> "add_supplier", arg |-> x,
                           outcome |-> Returned(x)]
       ELSE /\ bldSuppliers' = bldSuppliers
            /\ bldLast' = [op |-> "add_supplier", arg |-> x,
                           outcome |-> RaisedError(TypeError)]
    /\ UNCHANGED <<nonBuilderVars, bldPc, bldProcessors, bldConsumers,
                   bldFactoryCalls, bldDescriptor, bldCalls, bldConsumed>>

\* add_consumer(x)
AddConsumer(x) ==
    /\ bldPc = "ready"
    /\ Len(bldSuppliers) + Len(bldConsumers) < MaxRegistered
    /\ IF IsDataSink(x)
       THEN /\ bldConsumers' = Registered(bldConsumers, x)
            /\ bldLast' = [op |-> "add_consumer", arg |-> x,
                           outcome |-> Returned(x)]
       ELSE /\ bldConsumers' = bldConsumers
            /\ bldLast' = [op |-> "add_consumer", arg |-> x,
                           outcome |-> RaisedError(TypeError)]
    /\ UNCHANGED <<nonBuilderVars, bldPc, bldSuppliers, bldProcessors,
                   bldFactoryCalls, bldDescriptor, bldCalls, bldConsumed>>

\* Variant: build() uses the first processor the builder was given.
Build_GivenProcessor ==
    /\ bldPc = "ready"
    /\ LET sup == BuildSupplier(bldSuppliers)
           con == BuildConsumer(bldConsumers)
           proc == IF bldProcessors = <<>> THEN NewNoOpDataProcessor
                   ELSE bldProcessors[1]
       IN IF sup.type = "raised"
          THEN /\ bldLast' = [op |-> "build", arg |-> None, outcome |-> sup]
               /\ bldDescriptor' = None
               /\ bldFactoryCalls' = <<>>
               /\ bldPc' = "ready"
          ELSE /\ bldDescriptor' = DescriptorOf(sup.value, proc, con.value)
               /\ bldLast' = [op |-> "build", arg |-> None,
                              outcome |-> Returned(bldDescriptor')]
               /\ bldFactoryCalls' = FactoryCalls(bldSuppliers, bldConsumers)
               /\ bldPc' = "built"
    /\ UNCHANGED <<nonBuilderVars, bldSuppliers, bldProcessors,
                   bldConsumers, bldCalls, bldConsumed>>

\* build(): the supplier is built first, then the default processor
\* factory is called, then the consumer is built.
Build ==
    /\ bldPc = "ready"
    /\ LET sup == BuildSupplier(bldSuppliers)
           con == BuildConsumer(bldConsumers)
       IN IF sup.type = "raised"
          THEN /\ bldLast' = [op |-> "build", arg |-> None, outcome |-> sup]
               /\ bldDescriptor' = None
               /\ bldFactoryCalls' = <<>>
               /\ bldPc' = "ready"
          ELSE /\ bldDescriptor' =
                      DescriptorOf(sup.value, NewNoOpDataProcessor, con.value)
               /\ bldLast' = [op |-> "build", arg |-> None,
                              outcome |-> Returned(bldDescriptor')]
               /\ bldFactoryCalls' = FactoryCalls(bldSuppliers, bldConsumers)
               /\ bldPc' = "built"
    /\ UNCHANGED <<nonBuilderVars, bldSuppliers, bldProcessors,
                   bldConsumers, bldCalls, bldConsumed>>

\* The data_consumer of the built descriptor is given v, through drain(v)
\* or as a callable.
ConsumerCall(v, viaCall) ==
    /\ bldPc = "built"
    /\ bldDescriptor.data_consumer.type \in {"DataSink", "NullDataSink"}
    /\ Len(bldCalls) < MaxStageCalls
    /\ bldCalls' = Append(bldCalls, v)
    /\ bldConsumed' =
          IF viaCall
          THEN CalledAsCallable(bldDescriptor.data_consumer, bldConsumed, v)
          ELSE Drained(bldDescriptor.data_consumer, bldConsumed, v)
    /\ bldLast' = [op |-> IF viaCall THEN "__call__" ELSE "drain", arg |-> v,
                   outcome |-> Returned(None)]
    /\ UNCHANGED <<nonBuilderVars, bldPc, bldSuppliers, bldProcessors,
                   bldConsumers, bldFactoryCalls, bldDescriptor>>

\* process(x) on the data_processor of the built descriptor.
ProcessorCall(x) ==
    /\ bldPc = "built"
    /\ bldLast' = [op |-> "process", arg |-> x,
                   outcome |->
                      Returned(Processed(bldDescriptor.data_processor, x))]
    /\ UNCHANGED <<nonBuilderVars, bldPc, bldSuppliers, bldProcessors,
                   bldConsumers, bldFactoryCalls, bldDescriptor,
                   bldCalls, bldConsumed>>

\* What the operation of a stage returns: draw() of a source returns the
\* raw data of that source, process(x) of a processor the data it makes of
\* x (x is not used by a source).
Invoked(stage, x) ==
    IF stage.type = "DataSource"
    THEN [type |-> "raw", of |-> stage]
    ELSE [type |-> "processed", by |-> stage, of |-> x]

\* Variant: __call__ of a processor passes a fixed value on.
InvokedAsCallable_FixedInput(stage, x) == Invoked(stage, "batch_a")

\* DataSource.__call__: `return self.draw()`; DataProcessor.__call__:
\* `return self.process(raw_data)`.
InvokedAsCallable(stage, x) == Invoked(stage, x)

\* A source or a processor held by the builder is invoked, as a callable
\* or through draw() / process(x).
StageCall(stage, x, viaCall) ==
    /\ bldPc = "ready"
    /\ stage \in Range(bldSuppliers) \cup Range(bldProcessors)
    /\ bldLast' = [op |-> IF viaCall THEN "stage()" ELSE "stage.operation",
                   on |-> stage, arg |-> x,
                   outcome |-> Returned(IF viaCall
                                        THEN InvokedAsCallable(stage, x)
                                        ELSE Invoked(stage, x))]
    /\ UNCHANGED <<nonBuilderVars, bldPc, bldSuppliers, bldProcessors,
                   bldConsumers, bldFactoryCalls, bldDescriptor,
                   bldCalls, bldConsumed>>

\* The caller is done with the descriptor and goes back to the builder.
BackToBuilder ==
    /\ bldPc = "built"
    /\ bldPc' = "ready"
    /\ bldDescriptor' = None
    /\ bldFactoryCalls' = <<>>
    /\ bldCalls' = <<>>
    /\ bldConsumed' = <<>>
    /\ UNCHANGED <<nonBuilderVars, bldSuppliers, bldProcessors, bldConsumers,
                   bldLast>>

\* An aggregate is constructed directly, over the sources (or the sinks)
\* at hand.
NewAggregate(class) ==
    /\ bldPc = "ready"
    /\ bldLast' = [op |-> class,
                   arg |-> IF class = "FanInDataSource"
                           THEN bldSuppliers ELSE bldConsumers,
                   outcome |-> IF class = "FanInDataSource"
                               THEN NewFanInDataSource(bldSuppliers)
                               ELSE NewFanOutDataSink(bldConsumers)]
    /\ UNCHANGED <<nonBuilderVars, bldPc, bldSuppliers, bldProcessors,
                   bldConsumers, bldFactoryCalls, bldDescriptor,
                   bldCalls, bldConsumed>>

\* WorkflowBuilder(...): __attrs_post_init__ copies what was given to the
\* constructor into the three private lists.
BuilderInit ==
    /\ EngineIdle
    /\ CliOff
    /\ FanInOff
    /\ FanOutOff
    /\ ImplOff
    /\ bldPc = "ready"
    /\ bldSuppliers \in SeqsUpTo(OfferedSources, MaxRegistered)
    /\ bldProcessors \in {<<>>, <<ProcessorInstance>>}
    /\ bldConsumers \in SeqsUpTo(OfferedSinks, MaxRegistered)
    /\ Len(bldSuppliers) + Len(bldConsumers) <= MaxRegistered
    /\ bldFactoryCalls = <<>>
    /\ bldDescriptor = None
    /\ bldLast = None
    /\ bldCalls = <<>>
    /\ bldConsumed = <<>>

BuilderNext ==
    \/ \E x \in OfferedSources \cup OfferedSinks \cup {NotAStage} :
          AddSupplier(x)
    \/ \E x \in OfferedSources \cup OfferedSinks \cup {NotAStage} :
          AddConsumer(x)
    \/ Build
    \/ \E v \in Batches, viaCall \in BOOLEAN : ConsumerCall(v, viaCall)
    \/ \E x \in Batches : ProcessorCall(x)
    \/ \E stage \in OfferedSources \cup {ProcessorInstance},
          x \in Batches, viaCall \in BOOLEAN : StageCall(stage, x, viaCall)
    \/ BackToBuilder
    \/ NewAggregate("FanInDataSource")
    \/ NewAggregate("FanOutDataSink")

BuilderSpec == BuilderInit /\ [][BuilderNext]_vars

\* ------------------------------------------------------------------------
\* Properties
\* ------------------------------------------------------------------------

\* The kinds of the signals sent for workflow o, in order.
Kinds(o) == [i \in 1..Len(events[o]) |-> events[o][i].kind]

\* The stages invoked for workflow o, in order.
CalledStages(o) == [i \in 1..Len(calls[o]) |-> calls[o][i][1]]

\* How many entries of the sequence q equal x.
Count(q, x) == Cardinality({i \in 1..Len(q) : q[i] = x})

IsPrefix(p, q) == Len(p) <= Len(q) /\ \A i \in 1..Len(p) : p[i] = q[i]

\* execute has returned or raised for workflow o.
Ended(o) == pc[o] = "done"

\* The run of o ended without any stage raising.
EndedWell(o) == Ended(o) /\ exc[o] = None

\* A stage body raised during the run of o.
StageRaised(o) == exc[o].type = "StageError"

\* Entering a stage failed during the run of o.
AcquisitionFailed(o) ==
    exc[o].type = "ResourceDisposedError" /\ calls[o] = <<>>

\* The process ended because a selected workflow id is not registered.
UnknownWorkflowExit ==
    cliPc = "exited" /\ runResult.type = "NoSuchWorkflowsError"

\* The process ended because the configuration could not be loaded or
\* applied.
ConfigurationErrorExit ==
    cliPc = "exited" /\ configOutcome \in {"LoadConfigError", "ConfigurationError"}

\* The process ended because of another error raised at run time.
RuntimeErrorExit ==
    cliPc = "exited" /\ runResult.type = "FactoryError"

\* C1: whenever execute has returned normally or has raised the exception of
\* the extractor, the transformer or the loader, the engine has disposed the
\* extractor, the transformer and the loader, and holds none of them.
C1_StagesDisposedOnEveryExit ==
    \A o \in Workflows :
        (Ended(o) /\ (exc[o] = None \/ StageRaised(o))) =>
            /\ \A s \in StageSet : isDisposed[o][s]
            /\ Range(disposeLog[o]) = StageSet
            /\ stack[o] = <<>>

\* C1 witness: execute has raised the loader's exception.
C1_Witness ==
    \E o \in Workflows :
        /\ Ended(o)
        /\ exc[o] = StageError(o, "loader")
        /\ result[o].type = "raised"

\* C2: the stage invocations of a run are always a prefix of extractor,
\* transformer, loader; a run in which no stage raised has invoked the
\* extractor once without argument, then the transformer once with the
\* extractor's result, then the loader once with the transformer's result.
C2_ExtractTransformLoadInOrder ==
    \A o \in Workflows :
        /\ IsPrefix(CalledStages(o), Stages)
        /\ EndedWell(o) =>
              /\ calls[o] =
                    <<  <<"extractor", None>>,
                        <<"transformer", Extracted(o)>>,
                        <<"loader", Transformed(o, Extracted(o))>>  >>
              /\ loaded[o] = << Transformed(o, Extracted(o)) >>

\* C2 witness: a run ended without a raise and its loader consumed a value.
C2_Witness ==
    \E o \in Workflows : EndedWell(o) /\ Len(loaded[o]) = 1

\* C3: a run in which every stage succeeded has sent exactly the signals
\* "starting", "completed" for its workflow, in that order, and no "failed".
C3_StartingThenCompleted ==
    \A o \in Workflows :
        EndedWell(o) =>
            /\ Kinds(o) = <<"starting", "completed">>
            /\ \A i \in 1..Len(events[o]) : events[o][i].etl_workflow = o

\* C3 witness: a run ended well after all three stages were invoked.
C3_Witness ==
    \E o \in Workflows :
        EndedWell(o) /\ Len(calls[o]) = 3 /\ result[o].type = "returned"

\* Position of a stage in the pipeline.
StageIndex(s) == CHOOSE i \in 1..Len(Stages) : Stages[i] = s

\* C4: once a stage has raised, the invocations stop at that stage, nothing
\* is loaded and "completed" is never sent; when the run has ended, exactly
\* one "failed" signal has been sent for the workflow.
C4_FailedNotCompleted ==
    \A o \in Workflows :
        StageRaised(o) =>
            /\ CalledStages(o) = SubSeq(Stages, 1, StageIndex(exc[o].stage))
            /\ loaded[o] = <<>>
            /\ Count(Kinds(o), "completed") = 0
            /\ Ended(o) =>
                  /\ Count(Kinds(o), "failed") = 1
                  /\ \E i \in 1..Len(events[o]) :
                        /\ events[o][i].kind = "failed"
                        /\ events[o][i].etl_workflow = o

\* C4 witness: the run ended after its extractor raised.
C4_Witness ==
    \E o \in Workflows :
        /\ Ended(o)
        /\ exc[o] = StageError(o, "extractor")
        /\ CalledStages(o) = <<"extractor">>

\* C5: a run in which a stage raised ends by raising that very exception,
\* and whenever execute has raised, the engine holds no stage, has disposed
\* every stage it entered and has sent the "failed" signal with that
\* exception.
C5_ErrorPropagatedAfterCleanup ==
    \A o \in Workflows :
        /\ (Ended(o) /\ StageRaised(o)) =>
              result[o] = Raised(StageError(o, calls[o][Len(calls[o])][1]))
        /\ result[o].type = "raised" =>
              /\ stack[o] = <<>>
              /\ Range(acquireLog[o]) \subseteq Range(disposeLog[o])
              /\ \A s \in Range(acquireLog[o]) : isDisposed[o][s]
              /\ ETLWorkflowFailed(o, result[o].exception) \in Range(events[o])

\* C5 witness: execute has raised the transformer's exception.
C5_Witness ==
    \E o \in Workflows :
        /\ result[o] = Raised(StageError(o, "transformer"))
        /\ Range(disposeLog[o]) = StageSet

\* C6: the stages are entered in the order extractor, transformer, loader;
\* when entering a stage failed, no stage is ever invoked, and when execute
\* has raised that error every stage entered before is disposed and none
\* is held.
C6_AcquisitionFailureReleasesAcquired ==
    \A o \in Workflows :
        /\ IsPrefix(acquireLog[o], Stages)
        /\ (calls[o] # <<>> => acquireLog[o] = Stages)
        /\ exc[o].type = "ResourceDisposedError" =>
              /\ calls[o] = <<>>
              /\ exc[o].stage = Stages[Len(acquireLog[o]) + 1]
              /\ result[o].type = "raised" =>
                    /\ result[o].exception = exc[o]
                    /\ Range(disposeLog[o]) = Range(acquireLog[o])
                    /\ Len(disposeLog[o]) = Len(acquireLog[o])
                    /\ stack[o] = <<>>

\* C6 witness: entering the loader failed after the extractor and the
\* transformer were entered, and execute has raised.
C6_Witness ==
    \E o \in Workflows :
        /\ result[o] = Raised(ResourceDisposedError(o, "loader"))
        /\ acquireLog[o] = <<"extractor", "transformer">>
        /\ Range(disposeLog[o]) = {"extractor", "transformer"}


\* C7, as the claim states it: the "starting" signal is sent only after the
\* extractor, the transformer and the loader have all been entered, so a
\* run whose acquisition fails sends no "starting" signal.
C7_StartingAfterAcquisition ==
    \A o \in Workflows :
        Count(Kinds(o), "starting") > 0 => acquireLog[o] = Stages

\* C7, amended: the "starting" signal is sent once, before any stage is
\* entered and so before the extractor is invoked; a run whose acquisition
\* fails has sent "starting" and then sends "failed".
C7_StartingBeforeAcquisition ==
    \A o \in Workflows :
        /\ Count(Kinds(o), "starting") <= 1
        /\ (acquireLog[o] # <<>> \/ calls[o] # <<>> \/ exc[o] # None) =>
              (Len(events[o]) >= 1 /\ events[o][1].kind = "starting")
        /\ (Ended(o) /\ AcquisitionFailed(o)) =>
              Kinds(o) = <<"starting", "failed">>

\* C7 witness: a run has ended whose very first acquisition failed, and
\* "starting" was sent for it.
C7_Witness ==
    \E o \in Workflows :
        /\ Ended(o)
        /\ exc[o] = ResourceDisposedError(o, "extractor")
        /\ acquireLog[o] = <<>>
        /\ Kinds(o) = <<"starting", "failed">>

\* C8: in a batch, a submitted workflow that has not ended can always take
\* its next step whatever its siblings did; every submitted workflow that
\* ended without a raise has sent "starting", "completed", every one that
\* ended with an error has sent its own "failed" and no "completed"; and the
\* batch call ends only when every submitted workflow has ended.
C8_SiblingsAreIsolated ==
    \A o \in tasks :
        /\ ~Ended(o) => ENABLED TaskStep(o)
        /\ callerPc = "done" => Ended(o)
        /\ EndedWell(o) => Kinds(o) = <<"starting", "completed">>
        /\ (Ended(o) /\ exc[o] # None) =>
              /\ Kinds(o) = <<"starting", "failed">>
              /\ events[o][2].etl_workflow = o

\* C8 witness: the batch call has returned, one workflow of the batch failed
\* in a stage and a sibling completed.
C8_Witness ==
    /\ callerPc = "done"
    /\ \E o1, o2 \in tasks :
          /\ StageRaised(o1) /\ Kinds(o1) = <<"starting", "failed">>
          /\ EndedWell(o2) /\ Kinds(o2) = <<"starting", "completed">>

\* The workflows whose id occurs in the sequence q.
WithIdIn(q) == {o \in Workflows : WfId(o) \in Range(q)}

\* C9, as the claim states it: with select None or without ids every known
\* workflow is run; with known ids exactly the selected ones are.
C9_EmptySelectRunsAll ==
    (callerPc # "idle" /\ runResult.type # "NoSuchWorkflowsError") =>
        IF select = None \/ select.ids = <<>>
        THEN tasks = Workflows
        ELSE tasks = WithIdIn(select.ids)

\* C9, amended: with select None every known workflow is run; with a select
\* of known ids exactly the workflows with those ids are run (so none for an
\* empty select), each started at most once and exactly once when the call
\* has ended; a workflow that is not selected is never touched.
C9_RunsExactlyTheSelected ==
    callerPc # "idle" =>
        /\ select = None => tasks = Workflows
        /\ (select # None /\ Range(select.ids) \subseteq KnownIds) =>
              tasks = WithIdIn(select.ids)
        /\ \A o \in Workflows :
              /\ Count(Kinds(o), "starting") <= 1
              /\ o \in tasks <=> pc[o] # "new"
              /\ o \notin tasks =>
                    /\ events[o] = <<>>
                    /\ acquireLog[o] = <<>>
                    /\ calls[o] = <<>>
              /\ (o \in tasks /\ callerPc = "done") =>
                    (Ended(o) /\ Count(Kinds(o), "starting") = 1)

\* C9 witness: a call that selected the same known id twice has returned
\* after running that workflow, and only that one, once.
C9_Witness ==
    /\ callerPc = "done"
    /\ select.type = "Sequence"
    /\ Len(select.ids) = 2
    /\ select.ids[1] = select.ids[2]
    /\ \E o \in Workflows :
          /\ tasks = {o}
          /\ Count(Kinds(o), "starting") = 1

\* C10: when select holds an id of no known workflow, the call has raised
\* NoSuchWorkflowsError with exactly the unknown ids of select, and no
\* workflow was submitted, started, signalled, entered or invoked.
C10_UnknownIdsRaiseBeforeRunning ==
    (callerPc # "idle" /\ select # None
        /\ Range(select.ids) \cap UnknownIds # {}) =>
        /\ callerPc = "done"
        /\ runResult.type = "NoSuchWorkflowsError"
        /\ runResult.missing_workflows = Range(select.ids) \ KnownIds
        /\ tasks = {}
        /\ \A o \in Workflows :
              /\ pc[o] = "new"
              /\ events[o] = <<>>
              /\ acquireLog[o] = <<>>
              /\ calls[o] = <<>>
              /\ disposeLog[o] = <<>>

\* C10 witness: a call that selected a known and an unknown id has raised
\* NoSuchWorkflowsError naming the unknown id only.
C10_Witness ==
    /\ select.type = "Sequence"
    /\ Range(select.ids) \cap KnownIds # {}
    /\ runResult.type = "NoSuchWorkflowsError"
    /\ Cardinality(runResult.missing_workflows) = 1

\* C11: the exit status of a process that ended on an unknown selected
\* workflow, the exit status of one that ended on a configuration error and
\* the exit status of one that ended on an unhandled run-time error are
\* pairwise different.
C11_ExitStatusPerFailureKind ==
    /\ UnknownWorkflowExit =>
          exitStatus \notin {UnhandledRuntimeErrorStatus,
                             LoadConfigErrorStatus, ConfigurationErrorStatus}
    /\ ConfigurationErrorExit => exitStatus # UnhandledRuntimeErrorStatus
    /\ RuntimeErrorExit =>
          exitStatus \notin {LoadConfigErrorStatus, ConfigurationErrorStatus}

\* The latest call of draw() submitted the member draws and has returned
\* or raised.
DrawEnded ==
    /\ fiPc = "idle"
    /\ fiResult # None
    /\ \A m \in Sources : fiFutures[m].state \in {"succeeded", "failed"}

\* The members whose draw succeeded in the latest call of draw().
SucceededMembers == {m \in Sources : fiFutures[m].state = "succeeded"}

\* C12: when every member draw of a call of draw() has returned its value,
\* draw() returns the values of the members in the order the members were
\* registered, whatever the order in which the member draws finished.
C12_DrawReturnsInRegistrationOrder ==
    (DrawEnded /\ SucceededMembers = Sources) =>
        fiResult = Returned([m \in Sources |-> Drawn(m)])

\* A draw whose member draws all succeeded and finished in the reverse of
\* the registration order.
C12_Witness ==
    /\ DrawEnded
    /\ SucceededMembers = Sources
    /\ fiCompletion = [i \in 1..NumSources |-> NumSources + 1 - i]
    /\ fiResult.type = "returned"

\* C13: a call of the main operation or of __call__ that is made on a
\* stage instance after its dispose() fails with ResourceDisposedError and
\* the body of the operation does not run, whatever the class of the stage.
C13_DisposedStageRejectsCalls ==
    (implLast # None /\ implLast.disposed) =>
        /\ implLast.outcome = RaisedError(DisposedError(implKind.name))
        /\ ~implLast.bodyRan

\* C14: once dispose() of a FanInDataSource has returned, every member
\* source is disposed, whether or not draw() was called before.
C14_FanInDisposeDisposesMembers ==
    (fiPc = "idle" /\ fiDisposed) =>
        \A m \in Sources : fiMemberDisposed[m]

\* C15: once dispose() of a FanOutDataSink has returned, every member sink
\* and the executor are disposed, whether or not drain() was called before.
C15_FanOutDisposeDisposesMembers ==
    (foPc = "idle" /\ foDisposed) =>
        /\ foExecDisposed
        /\ \A m \in Sinks : foMemberDisposed[m]

\* The values of the members in SucceededMembers, in registration order.
RECURSIVE ValuesInOrder(_)
ValuesInOrder(m) ==
    IF m > NumSources THEN <<>>
    ELSE IF m \in SucceededMembers
    THEN <<Drawn(m)>> \o ValuesInOrder(m + 1)
    ELSE ValuesInOrder(m + 1)

\* C16: when some member draws of a call of draw() raised and some
\* returned, draw() does not raise: it returns the values of the members
\* that returned, in registration order, and nothing for the others.
C16_PartialFailureReturnsSuccesses ==
    (DrawEnded /\ SucceededMembers # {} /\ SucceededMembers # Sources) =>
        fiResult = Returned(ValuesInOrder(1))

\* A draw whose first and last member returned while a member between
\* them raised.
C16_Witness ==
    /\ DrawEnded
    /\ SucceededMembers = Sources \ {2}
    /\ fiResult.type = "returned"
    /\ Len(fiResult.value) = NumSources - 1

\* The latest call of drain() was accepted and has returned, and the member
\* sinks have finished with its value.
DrainEnded ==
    /\ foPc = "idle"
    /\ foResult.type = "returned"
    /\ Len(foDrains) > 0
    /\ \A m \in Sinks :
          foFutures[Len(foDrains)][m].state \in {"succeeded", "failed"}

\* The member sinks that raised on the value of the latest drain().
FailedSinks ==
    {m \in Sinks : foFutures[Len(foDrains)][m].state = "failed"}

\* C17: when every member of an aggregate failed, the outcome that the
\* caller of draw() / drain() gets differs from the outcome of a call in
\* which there was simply nothing to return.
C17_AllMembersFailedIsReported ==
    /\ (DrawEnded /\ SucceededMembers = {}) => fiResult # Returned(<<>>)
    /\ (DrainEnded /\ FailedSinks = Sinks) => foResult # Returned(None)

\* The accepted calls of drain() whose value is v.
DrainsOf(v) == {d \in 1..Len(foDrains) : foDrains[d] = v}

\* C18: every call of drain(v) on a FanOutDataSink that is not disposed is
\* accepted and gives every member sink exactly one invocation with v: at
\* any moment the invocations of a member with v that have happened, plus
\* those still to happen, are as many as the calls drain(v); and an
\* invocation that is still to happen can happen whatever the sibling
\* members did.
C18_EveryMemberInvokedOncePerDrain ==
    /\ (foPc = "idle" /\ ~foDisposed) => Len(foDrains) = foDrained
    /\ \A m \in Sinks : \A v \in Batches :
          foCalls[m][v]
             + Cardinality({d \in DrainsOf(v) : foFutures[d][m] = Pending})
          = Cardinality(DrainsOf(v))
    /\ \A d \in 1..Len(foDrains) : \A m \in Sinks :
          foFutures[d][m] = Pending => ENABLED FanOutMemberDrain(d, m)

\* Two drains of different values have been fanned out; for the first a
\* member sink raised and its sibling was invoked all the same; every
\* member has been invoked once with each value.
C18_Witness ==
    /\ Len(foDrains) = 2
    /\ foDrains[1] # foDrains[2]
    /\ foFutures[1][1].state = "failed"
    /\ foFutures[1][NumSinks].state = "succeeded"
    /\ \A m \in Sinks : \A v \in Batches : foCalls[m][v] = 1

\* C19: the caller of a concurrent batch gets control back only when the
\* batch is complete: when draw() has returned no member draw is pending,
\* when drain(v) has returned no member sink is still to consume v, and
\* when usecases.run has returned every submitted run has ended.
C19_CallerBlocksUntilBatchCompletes ==
    /\ (fiPc = "idle" /\ fiResult.type = "returned") =>
          \A m \in Sources : fiFutures[m] # Pending
    /\ (foPc = "idle" /\ foResult.type = "returned" /\ Len(foDrains) > 0) =>
          \A m \in Sinks : foFutures[Len(foDrains)][m] # Pending
    /\ (callerPc = "done" /\ runResult.type = "returned") =>
          \A o \in tasks : Ended(o)

\* C20: a member sink that raised on the value of a drain() is not counted
\* as a success: once the member sinks have finished, the outcome that the
\* caller of drain() got is a normal return only if no member sink raised.
C20_SinkFailureIsObservable ==
    DrainEnded => FailedSinks = {}

Implements(x, interface) ==
    IF interface = "DataSource"
    THEN x.type \in {"DataSource", "FanInDataSource"}
    ELSE x.type \in {"DataSink", "FanOutDataSink", "NullDataSink"}

\* The latest operation on the builder, or on what it built, was op.
LastOp(op) == bldLast # None /\ bldLast.op = op

\* C22: constructing a FanInDataSource over no member source raises an
\* error and returns no instance, and so does constructing a FanOutDataSink
\* over no member sink.
C22_EmptyAggregateIsRejected ==
    \A class \in {"FanInDataSource", "FanOutDataSink"} :
        (LastOp(class) /\ bldLast.arg = <<>>) =>
            bldLast.outcome = RaisedError(ValueError)

\* C22 witness: a FanInDataSource was constructed over no member and the
\* construction raised.
C22_Witness ==
    /\ LastOp("FanInDataSource")
    /\ bldLast.arg = <<>>
    /\ bldLast.outcome.type = "raised"

\* C23: build() on a builder with no registered source raises an error and
\* no descriptor is produced, whatever sinks and processors are registered.
C23_BuildWithoutSourceFails ==
    (LastOp("build") /\ bldSuppliers = <<>>) =>
        /\ bldLast.outcome = RaisedError(ValueError)
        /\ bldDescriptor = None
        /\ bldPc = "ready"

\* C23 witness: build() has raised on a builder without sources that has a
\* sink and a processor registered.
C23_Witness ==
    /\ LastOp("build")
    /\ bldSuppliers = <<>>
    /\ bldConsumers # <<>>
    /\ bldProcessors # <<>>
    /\ bldLast.outcome.type = "raised"

\* C24: build() with exactly one registered source returns a descriptor
\* whose data_supplier is that instance, and with exactly one registered
\* sink a descriptor whose data_consumer is that instance.
C24_SingleEntryIsUsedDirectly ==
    /\ (LastOp("build") /\ bldSuppliers # <<>>) => bldLast.outcome.type = "returned"
    /\ bldPc = "built" =>
        /\ LastOp("build") => bldLast.outcome = Returned(bldDescriptor)
        /\ Len(bldSuppliers) = 1 =>
              bldDescriptor.data_supplier = bldSuppliers[1]
        /\ Len(bldConsumers) = 1 =>
              bldDescriptor.data_consumer = bldConsumers[1]

\* C25: add_supplier and add_consumer register at the end of their list,
\* after what the constructor was given, and build() with two or more
\* registered sources passes the whole list, in that order, to the
\* composite supplier factory and uses the result as data_supplier; the
\* same holds for two or more sinks and the composite consumer factory.
C25_CompositeReceivesAllInOrder ==
    [][/\ bldSuppliers' # bldSuppliers =>
             \E x \in OfferedSources :
                 /\ bldSuppliers' = bldSuppliers \o <<x>>
                 /\ LastOp("add_supplier")' /\ bldLast'.arg = x
       /\ bldConsumers' # bldConsumers =>
             \E x \in OfferedSinks :
                 /\ bldConsumers' = bldConsumers \o <<x>>
                 /\ LastOp("add_consumer")' /\ bldLast'.arg = x
       /\ (LastOp("build")' /\ Len(bldSuppliers') >= 2) =>
             bldLast'.outcome.type = "returned"
       /\ (bldPc' = "built" /\ Len(bldSuppliers') >= 2) =>
             /\ [factory |-> "composite_supplier_factory",
                 args |-> bldSuppliers'] \in Range(bldFactoryCalls')
             /\ bldDescriptor'.data_supplier =
                   [type |-> "FanInDataSource", members |-> bldSuppliers']
       /\ (bldPc' = "built" /\ Len(bldConsumers') >= 2) =>
             /\ [factory |-> "composite_consumer_factory",
                 args |-> bldConsumers'] \in Range(bldFactoryCalls')
             /\ bldDescriptor'.data_consumer =
                   [type |-> "FanOutDataSink", members |-> bldConsumers']
      ]_vars

\* C25 witness: a descriptor was built over two different sources; its
\* supplier is the composite over both, in registration order.
C25_Witness ==
    /\ bldPc = "built"
    /\ Len(bldSuppliers) = 2
    /\ bldSuppliers[1] # bldSuppliers[2]
    /\ bldDescriptor # None
    /\ bldDescriptor.data_supplier.type = "FanInDataSource"
    /\ bldDescriptor.data_supplier.members = bldSuppliers

\* C26: the data_consumer of a descriptor built with no registered sink
\* takes every value, as often as it is given one, returns without
\* raising and consumes nothing.
C26_NoSinkMeansDiscard ==
    (bldPc = "built" /\ bldConsumers = <<>>) =>
        /\ bldDescriptor.data_consumer = NewNullDataSink
        /\ bldConsumed = <<>>
        /\ (LastOp("drain") \/ LastOp("__call__")) =>
              bldLast.outcome = Returned(None)
        /\ Len(bldCalls) < MaxStageCalls =>
              \A v \in Batches, viaCall \in BOOLEAN :
                  ENABLED ConsumerCall(v, viaCall)

\* C26 witness: the discard sink of a built descriptor was given two
\* values.
C26_Witness ==
    /\ bldPc = "built"
    /\ bldConsumers = <<>>
    /\ Len(bldCalls) = 2
    /\ bldConsumed = <<>>
    /\ LastOp("drain")

\* C27: with no processor given to the builder, the data_processor of the
\* built descriptor is the product of the default processor factory, and
\* its process(x) returns x.
C27_DefaultProcessorPassesThrough ==
    (bldPc = "built" /\ bldProcessors = <<>>) =>
        /\ [factory |-> "default_processor_factory", args |-> <<>>]
              \in Range(bldFactoryCalls)
        /\ bldDescriptor.data_processor = NewNoOpDataProcessor
        /\ LastOp("process") => bldLast.outcome = Returned(bldLast.arg)

\* C27 witness: process("batch_a") on the default processor of a built
\* descriptor returned "batch_a".
C27_Witness ==
    /\ bldPc = "built"
    /\ bldProcessors = <<>>
    /\ LastOp("process")
    /\ bldLast.arg = "batch_a"
    /\ bldLast.outcome = Returned("batch_a")

\* C28: add_supplier(x) and add_consumer(x) return x after registering it;
\* given an x that does not implement DataSource (resp. DataSink) they
\* raise an error and the registered sources and sinks stay as they were.
C28_AddReturnsInstanceOrFails ==
    [][/\ LastOp("add_supplier")' =>
             IF Implements(bldLast'.arg, "DataSource")
             THEN /\ bldLast'.outcome = Returned(bldLast'.arg)
                  /\ bldSuppliers' = bldSuppliers \o <<bldLast'.arg>>
                  /\ UNCHANGED <<bldProcessors, bldConsumers>>
             ELSE /\ bldLast'.outcome.type = "raised"
                  /\ UNCHANGED <<bldSuppliers, bldProcessors, bldConsumers>>
       /\ LastOp("add_consumer")' =>
             IF Implements(bldLast'.arg, "DataSink")
             THEN /\ bldLast'.outcome = Returned(bldLast'.arg)
                  /\ bldConsumers' = bldConsumers \o <<bldLast'.arg>>
                  /\ UNCHANGED <<bldProcessors, bldSuppliers>>
             ELSE /\ bldLast'.outcome.type = "raised"
                  /\ UNCHANGED <<bldSuppliers, bldProcessors, bldConsumers>>
      ]_vars

\* C28 witness: add_supplier was given an object that is not a DataSource
\* and raised, on a builder that holds a source and a sink.
C28_Witness ==
    /\ LastOp("add_supplier")
    /\ bldLast.arg = NotAStage
    /\ bldLast.outcome.type = "raised"
    /\ bldSuppliers # <<>>
    /\ bldConsumers # <<>>

\* C29: every "failed" signal of a run carries the workflow that was run,
\* the text of the exception as its message and the exception itself, and
\* that exception is the one execute then raises to its caller.
C29_FailedSignalCarriesTheError ==
    \A o \in Workflows :
        /\ \A i \in DOMAIN events[o] :
              events[o][i].kind = "failed" =>
                  /\ events[o][i].etl_workflow = o
                  /\ events[o][i].exception = exc[o]
                  /\ events[o][i].exception # None
                  /\ events[o][i].err_message = Str(exc[o])
                  /\ Ended(o) => result[o] = Raised(events[o][i].exception)
        /\ result[o].type = "raised" =>
              \E i \in DOMAIN events[o] :
                  /\ events[o][i].kind = "failed"
                  /\ events[o][i].exception = result[o].exception

\* C29 witness: execute has raised the exception of the "failed" signal it
\* sent last.
C29_Witness ==
    \E o \in Workflows :
        /\ result[o].type = "raised"
        /\ events[o] # <<>>
        /\ events[o][Len(events[o])] =
              ETLWorkflowFailed(o, result[o].exception)

\* C30: a sink that was given x1, ..., xn, as a callable or through drain,
\* has consumed exactly x1, ..., xn, each once and in that order.
C30_CallIsDrain ==
    (bldPc = "built" /\ bldDescriptor.data_consumer.type = "DataSink") =>
        bldConsumed =
            [i \in 1..Len(bldCalls) |->
                <<bldDescriptor.data_consumer, bldCalls[i]>>]

\* C30 witness: a sink was called twice, with different values, the second
\* time as a callable.
C30_Witness ==
    /\ bldPc = "built"
    /\ bldDescriptor.data_consumer.type = "DataSink"
    /\ Len(bldCalls) = 2
    /\ bldCalls[1] # bldCalls[2]
    /\ LastOp("__call__")
    /\ Len(bldConsumed) = 2

\* C31: a source called as a callable returns what its draw() returns, and
\* a processor called with x returns what its process(x) returns, for every
\* x and for every call of a sequence of calls.
C31_CallReturnsWhatTheOperationReturns ==
    LastOp("stage()") =>
        bldLast.outcome =
            Returned(IF bldLast.on.type = "DataSource"
                     THEN [type |-> "raw", of |-> bldLast.on]
                     ELSE [type |-> "processed", by |-> bldLast.on,
                           of |-> bldLast.arg])

\* C31 witness: a processor called with "batch_b" returned what it makes
\* of "batch_b".
C31_Witness ==
    /\ LastOp("stage()")
    /\ bldLast.on = ProcessorInstance
    /\ bldLast.arg = "batch_b"
    /\ bldLast.outcome.value.of = "batch_b"

\* C39: the data_processor of every built descriptor is the product of
\* default_processor_factory; the processors given to the constructor of
\* the builder are no part of the descriptor, and build() leaves them
\* where they are.
C39_GivenProcessorsAreIgnored ==
    [][bldPc' = "built" =>
          /\ bldDescriptor'.data_processor = NewNoOpDataProcessor
          /\ [factory |-> "default_processor_factory", args |-> <<>>]
                \in Range(bldFactoryCalls')
          /\ \A p \in Range(bldProcessors') :
                p \notin {bldDescriptor'.data_supplier,
                          bldDescriptor'.data_processor,
                          bldDescriptor'.data_consumer}
          /\ bldProcessors' = bldProcessors
      ]_vars

\* C39 witness: a descriptor was built by a builder that was given a
\* processor, and its data_processor is the default one.
C39_Witness ==
    /\ bldPc = "built"
    /\ LastOp("build")
    /\ bldProcessors = <<ProcessorInstance>>
    /\ bldDescriptor.data_processor = NewNoOpDataProcessor

\* The `with` block of the run of o has been left.
ScopeLeft(o) == pc[o] \in {"complete", "fail", "reraise", "done"}

\* A terminal signal ("completed" or "failed") has been sent for o.
TerminalSent(o) ==
    \E i \in DOMAIN events[o] : events[o][i].kind \in {"completed", "failed"}

\* C32: the engine disposes no stage twice and no stage it did not enter,
\* and once the scope of a run is left, on every exit path, it has disposed
\* every stage it entered exactly once.
C32_AcquiredStagesDisposedExactlyOnce ==
    \A o \in Workflows :
        \A s \in StageSet :
            /\ Count(disposeLog[o], s) <= Count(acquireLog[o], s)
            /\ Count(acquireLog[o], s) <= 1
            /\ ScopeLeft(o) =>
                  Count(disposeLog[o], s) = Count(acquireLog[o], s)

\* C32 witness: a run ended after its transformer raised, with each of the
\* three stages disposed once.
C32_Witness ==
    \E o \in Workflows :
        /\ Ended(o)
        /\ exc[o] = StageError(o, "transformer")
        /\ \A s \in StageSet : Count(disposeLog[o], s) = 1

\* C33: the stages of a run are released last entered first: nothing is
\* released before the scope is left, and from then on the released stages
\* are the entered stages in reverse order (loader, transformer, extractor
\* when all three were entered).
C33_ReleaseInReverseAcquisitionOrder ==
    \A o \in Workflows :
        /\ ~ScopeLeft(o) => disposeLog[o] = <<>>
        /\ ScopeLeft(o) => disposeLog[o] = Reverse(acquireLog[o])
        /\ (ScopeLeft(o) /\ calls[o] # <<>>) =>
              disposeLog[o] = <<"loader", "transformer", "extractor">>

\* C33 witness: entering the loader failed, and the transformer was
\* released before the extractor.
C33_Witness ==
    \E o \in Workflows :
        /\ Ended(o)
        /\ exc[o] = ResourceDisposedError(o, "loader")
        /\ disposeLog[o] = <<"transformer", "extractor">>

\* C38: when a terminal signal of a run is about to be sent, and ever
\* after it was sent, the engine holds no stage and every stage it entered
\* for the run is disposed.
C38_StagesDisposedBeforeTerminalSignal ==
    \A o \in Workflows :
        (pc[o] \in {"complete", "fail"} \/ TerminalSent(o)) =>
            /\ stack[o] = <<>>
            /\ \A s \in Range(acquireLog[o]) :
                  isDisposed[o][s] /\ s \in Range(disposeLog[o])

\* C38 witness: "failed" was sent for a run whose loader raised, after its
\* three stages were disposed.
C38_Witness ==
    \E o \in Workflows :
        /\ TerminalSent(o)
        /\ exc[o] = StageError(o, "loader")
        /\ acquireLog[o] = Stages
        /\ \A s \in StageSet : isDisposed[o][s]

\* C36: when the first draw() of a FanInDataSource has returned data, every
\* member source and the executor are disposed while the aggregate itself
\* is not; every later draw() on the aggregate ends with an error.
C36_DrawIsSingleUse ==
    [][/\ (fiPc = "exit" /\ fiPc' = "idle" /\ fiResult'.type = "returned") =>
             /\ fiDrawn' = 1
             /\ ~fiDisposed'
             /\ \A m \in Sources : fiMemberDisposed'[m]
             /\ fiExecDisposed'
       /\ (fiDrawn' > fiDrawn /\ fiDrawn' >= 2) => fiResult'.type = "raised"
      ]_vars

\* C36 witness: the second draw() on an aggregate that was never disposed
\* raised, after every member was drawn from once.
C36_Witness ==
    /\ fiPc = "idle"
    /\ fiDrawn = 2
    /\ ~fiDisposed
    /\ fiResult.type = "raised"
    /\ \A m \in Sources : fiMemberDraws[m] = 1

\* The workflows of the batch whose execute raised.
FailedTasks == {o \in tasks : pc[o] = "done" /\ result[o].type = "raised"}

\* C35: usecases.run returns normally whenever it ran workflows, also when
\* some or all of them failed; each failure is on that workflow's "failed"
\* signal only, and the `run` command that ran failed workflows ends with
\* AppStopping as its last signal and exit status 0.
C35_RunReturnsNormallyAfterFailures ==
    /\ (callerPc = "done" /\ tasks # {}) =>
          /\ runResult.type = "returned"
          /\ \A o \in FailedTasks : Count(Kinds(o), "failed") = 1
    /\ (cliPc = "exited" /\ FailedTasks # {}) =>
          /\ appSignals = <<AppReady, AppStopping>>
          /\ exitStatus = 0

\* The command line ran two workflows, both failed, and the process ended.
C35_Witness ==
    /\ cliPc = "exited"
    /\ Cardinality(tasks) = 2
    /\ FailedTasks = tasks
    /\ exitStatus = 0

\* C34: for every run of execute at most one terminal signal is published,
\* "completed" and "failed" are never both published for the same run,
\* also when a handler raises while a signal is delivered or when a stage's
\* dispose() raises during cleanup.
C34_AtMostOneTerminalSignal ==
    \A o \in Workflows :
        Count(Kinds(o), "completed") + Count(Kinds(o), "failed") <= 1

\* C37: once a run of a workflow object has ended, completed or failed, a
\* later run of the same object enters no stage and invokes no stage
\* operation, and it ends by raising the ResourceDisposedError of its first
\* stage after publishing "failed" with that error.
C37_StagesAreSingleUseAcrossRuns ==
    [][\A o \in Workflows :
          LET e == ResourceDisposedError(o, Stages[1])
          IN Runs(o) >= 2 =>
                /\ calls'[o] = calls[o]
                /\ acquireLog'[o] = acquireLog[o]
                /\ stack'[o] = <<>>
                /\ (pc[o] = "acquire" /\ pc'[o] # "acquire") =>
                       pc'[o] = "exit" /\ exc'[o] = e
                /\ (pc[o] # "done" /\ pc'[o] = "done") =>
                       /\ result'[o] = Raised(e)
                       /\ events'[o][Len(events'[o])] = ETLWorkflowFailed(o, e)
                       /\ Count(Kinds(o), "failed") >= 1
      ]_vars

\* A workflow completed its first run and its second run has ended.
C37_Witness ==
    \E o \in Workflows :
        /\ Runs(o) = 2
        /\ pc[o] = "done"
        /\ Count(Kinds(o), "completed") = 1
        /\ Count(Kinds(o), "failed") = 1
        /\ result[o].type = "raised"

\* The configured workflows that a later configured workflow has the id of.
Shadowed ==
    {Config[k] : k \in {j \in DOMAIN Config :
                           \E l \in DOMAIN Config :
                               l > j /\ idOf[Config[l]] = idOf[Config[j]]}}

\* C40: the registry list_workflows returns has one entry per id, the
\* workflow of the last configured factory with that id; usecases.run runs
\* no workflow that a later one has the id of, and the shared id alone makes
\* it raise nothing and publish nothing.
C40_LaterWorkflowReplacesSameId ==
    (select # NoCall) =>
        /\ DOMAIN workflows = {idOf[o] : o \in Workflows}
        /\ \A o \in Workflows :
              workflows[idOf[o]] = o <=> o \notin Shadowed
        /\ tasks \cap Shadowed = {}
        /\ \A o \in Shadowed : pc[o] = "new" /\ events[o] = <<>>
        /\ select = None =>
              /\ tasks = Workflows \ Shadowed
              /\ runResult.type \in {"None", "returned"}
        /\ runResult.type = "NoSuchWorkflowsError" =>
              runResult.missing_workflows \cap {idOf[o] : o \in Workflows} = {}

\* Two configured workflows share an id, every workflow was asked for, and
\* the run has returned after running the later one only.
C40_Witness ==
    /\ Shadowed # {}
    /\ select = None
    /\ callerPc = "done"
    /\ runResult.type = "returned"
    /\ \A o \in Workflows \ Shadowed : pc[o] = "done"

====
